---- MODULE Spec2Model ----
(***************************************************************************)
(* Time-slot management of bracket-master: the time_slots table, the SQL   *)
(* helpers of bracket/sql/time_slots.py and the request handlers of        *)
(* bracket/routes/time_slots.py.                                           *)
(*                                                                         *)
(* Instants are integers (ticks).  Identities of tournaments, courts and   *)
(* matches are those of existing rows of the referenced tables (the        *)
(* foreign keys of the time_slots table), numbered from 1.                 *)
(*                                                                         *)
(* Referee management: the referees, referees_x_tournaments and            *)
(* referees_x_matches tables, the SQL helpers of bracket/sql/referees.py   *)
(* and the request handlers of bracket/routes/referees.py.  Of a match,    *)
(* the columns the referee queries read are kept: start_time,              *)
(* duration_minutes and margin_minutes.                                    *)
(***************************************************************************)
EXTENDS Integers, FiniteSets, Sequences, TLC

\* ---------------------------------------------------------------- bounds
MaxTournament == 2
MaxCourt == 2
MaxTime == 2
MaxMatch == 1
MaxId == 2

Tournaments == 1..MaxTournament
Courts == 1..MaxCourt
Times == 0..MaxTime
Matches == 1..MaxMatch
SlotIds == 1..MaxId

\* Bulk generation: days 0..MaxDay of TicksPerDay ticks each (times of day
\* 0..MaxTick), slot and break lengths in ticks.
MaxDay == 1
MaxDuration == 2
MaxBreak == 1
MaxTick == 3
TicksPerDay == MaxTick + 1
Days == 0..MaxDay

\* The two concurrent requests.
Procs == {1, 2}

\* Referees 1..MaxReferee; the margin of a match is 0..MaxMargin ticks.
MaxReferee == 2
MaxMargin == 1
RefereeIds == 1..MaxReferee

\* ------------------------------------------------------ program constants
\* None / SQL NULL.
NULL == -1

HTTP_200_OK == 200
HTTP_400_BAD_REQUEST == 400
HTTP_404_NOT_FOUND == 404
HTTP_409_CONFLICT == 409
HTTP_500_INTERNAL_SERVER_ERROR == 500

\* date.weekday() counts the seven days of a week.
DaysPerWeek == 7

\* Python truthiness of an optional integer: None and 0 are false.
Truthy(v) == v # NULL /\ v # 0

VARIABLES
    slots,      \* rows of the time_slots table
    nextId,     \* next value of the id sequence of time_slots
    last,       \* sequential requests: the last request and its response
    pc,         \* concurrent requests: position of each request
    req,        \* concurrent requests: the request of each process
    loc,        \* concurrent requests: what the handler has read so far
    resp,       \* concurrent requests: response status of each request
    referees,                \* rows of the referees table
    nextRefereeId,           \* next value of the id sequence of referees
    referees_x_tournaments,  \* rows of referees_x_tournaments (availability)
    referees_x_matches,      \* rows of referees_x_matches (assignments)
    matches                  \* rows of the matches table

vars == <<slots, nextId, last, pc, req, loc, resp, referees, nextRefereeId,
          referees_x_tournaments, referees_x_matches, matches>>

\* ------------------------------------------------------------- the store
\* A row of time_slots.
TimeSlot(id, t, c, st, en, av, m) ==
    [id |-> id, tournament_id |-> t, court_id |-> c, start_time |-> st,
     end_time |-> en, is_available |-> av, match_id |-> m]

\* A request body of create-slot.
TimeSlotBody(c, st, en, av) ==
    [court_id |-> c, start_time |-> st, end_time |-> en, is_available |-> av]

\* Mutant: a unique constraint that includes the tournament.
unique_court_time_slot_per_tournament(store, row) ==
    \E s \in store :
        /\ s.id # row.id
        /\ s.tournament_id = row.tournament_id
        /\ s.court_id = row.court_id
        /\ s.start_time = row.start_time
        /\ s.end_time = row.end_time

\* UniqueConstraint('court_id', 'start_time', 'end_time'): does `row` collide
\* with another row of `store`?
unique_court_time_slot(store, row) ==
    \E s \in store :
        /\ s.id # row.id
        /\ s.court_id = row.court_id
        /\ s.start_time = row.start_time
        /\ s.end_time = row.end_time

\* SELECT ... WHERE id = slot_id: the set of matching rows (empty: None).
get_time_slot_by_id(store, slot_id) == {s \in store : s.id = slot_id}

\* Mutant: closed intervals, so that touching slots conflict.
check_slot_conflicts_closed(store, tournament_id, court_id, start_time, end_time, exclude_slot_id) ==
    {s \in store :
        /\ s.tournament_id = tournament_id
        /\ s.court_id = court_id
        /\ s.start_time <= end_time
        /\ s.end_time >= start_time
        /\ (Truthy(exclude_slot_id) => s.id # exclude_slot_id)}

\* Mutant: a test that is closed at one end only.
check_slot_conflicts_half_closed(store, tournament_id, court_id, start_time, end_time, exclude_slot_id) ==
    {s \in store :
        /\ s.tournament_id = tournament_id
        /\ s.court_id = court_id
        /\ s.start_time <= end_time
        /\ s.end_time > start_time
        /\ (Truthy(exclude_slot_id) => s.id # exclude_slot_id)}

\* Mutant: the query without its exclusion of the edited slot.
check_slot_conflicts_no_exclude(store, tournament_id, court_id, start_time, end_time, exclude_slot_id) ==
    {s \in store :
        /\ s.tournament_id = tournament_id
        /\ s.court_id = court_id
        /\ s.start_time < end_time
        /\ s.end_time > start_time}

\* The rows the conflict query selects.
check_slot_conflicts(store, tournament_id, court_id, start_time, end_time, exclude_slot_id) ==
    {s \in store :
        /\ s.tournament_id = tournament_id
        /\ s.court_id = court_id
        /\ s.start_time < end_time
        /\ s.end_time > start_time
        /\ (Truthy(exclude_slot_id) => s.id # exclude_slot_id)}

\* The row an INSERT of create_time_slot builds: match_id is always NULL.
create_time_slot(id, tournament_id, slot) ==
    TimeSlot(id, tournament_id, slot.court_id, slot.start_time, slot.end_time,
             slot.is_available, NULL)

\* UPDATE ... SET **updates: the columns named in `updates` are overwritten.
ApplyUpdates(s, updates) ==
    [k \in DOMAIN s |-> IF k \in DOMAIN updates THEN updates[k] ELSE s[k]]

\* Mutant: the UPDATE without its WHERE clause.
update_time_slot_all(store, slot_id, updates) ==
    {ApplyUpdates(s, updates) : s \in store}

\* The table after UPDATE ... WHERE id = slot_id SET **updates.
update_time_slot(store, slot_id, updates) ==
    {IF s.id = slot_id THEN ApplyUpdates(s, updates) ELSE s : s \in store}

\* Mutant: the assignment that forgets to clear is_available.
assign_match_to_slot_only_match(match_id) == [match_id |-> match_id]

\* The values assign_match_to_slot writes.
assign_match_to_slot(match_id) ==
    [match_id |-> match_id, is_available |-> FALSE]

\* Mutant: the release that forgets to set is_available.
release_slot_only_match == [match_id |-> NULL]

\* Mutant: the release that leaves the slot blocked.
release_slot_blocked == [match_id |-> NULL, is_available |-> FALSE]

\* The values release_slot writes.
release_slot == [match_id |-> NULL, is_available |-> TRUE]

\* Mutant: the DELETE without its WHERE clause.
delete_time_slot_all(store, slot_id) == {}

\* The table after DELETE ... WHERE id = slot_id.
delete_time_slot(store, slot_id) == {s \in store : s.id # slot_id}

\* Does an UPDATE of slot_id break the unique constraint?
UpdateViolatesUnique(store, slot_id, updates) ==
    \E s \in store :
        s.id = slot_id /\ unique_court_time_slot(store, ApplyUpdates(s, updates))


\* ------------------------------------------------------- bulk generation
\* datetime.combine(date, time): the instant of tick `tod` of day `day`.
Combine(day, tod) == day * TicksPerDay + tod

\* date.weekday(): 0 = Monday .. 6 = Sunday; day 0 is a Monday.
Weekday(day) == day % DaysPerWeek

\* Mutant: the loop that truncates the trailing slot at the end of the day.
RECURSIVE DaySlots_truncating(_, _, _, _)
DaySlots_truncating(current_time, end_time_for_day, duration, break) ==
    IF current_time < end_time_for_day
    THEN LET slot_end == current_time + duration IN
         IF slot_end > end_time_for_day
         THEN <<[start_time |-> current_time, end_time |-> end_time_for_day]>>
         ELSE <<[start_time |-> current_time, end_time |-> slot_end]>>
              \o DaySlots_truncating(slot_end + break, end_time_for_day, duration, break)
    ELSE <<>>

\* The inner while loop of bulk_create_time_slots: the intervals of one court
\* on one day, from the cursor current_time on.
RECURSIVE DaySlots(_, _, _, _)
DaySlots(current_time, end_time_for_day, duration, break) ==
    IF current_time < end_time_for_day
    THEN LET slot_end == current_time + duration IN
         IF slot_end > end_time_for_day
         THEN <<>>
         ELSE <<[start_time |-> current_time, end_time |-> slot_end]>>
              \o DaySlots(slot_end + break, end_time_for_day, duration, break)
    ELSE <<>>

\* The for loop over bulk_request.court_ids on one day: the rows to insert,
\* in order (ids are given at insertion).
RECURSIVE CourtSlots(_, _, _)
CourtSlots(b, day, court_ids) ==
    IF court_ids = <<>> THEN <<>>
    ELSE LET ivs == DaySlots(Combine(day, b.daily_start_time),
                             Combine(day, b.daily_end_time),
                             b.slot_duration_minutes, b.break_duration_minutes)
         IN [i \in 1..Len(ivs) |->
                [tournament_id |-> b.tournament_id, court_id |-> Head(court_ids),
                 start_time |-> ivs[i].start_time, end_time |-> ivs[i].end_time,
                 is_available |-> TRUE, match_id |-> NULL]]
            \o CourtSlots(b, day, Tail(court_ids))

\* Mutant: the day loop that stops before the end date.
RECURSIVE BulkDrafts_exclusive_end(_, _)
BulkDrafts_exclusive_end(b, current_date) ==
    IF current_date < b.end_date
    THEN IF Weekday(current_date) \in b.exclude_days
         THEN BulkDrafts_exclusive_end(b, current_date + 1)
         ELSE CourtSlots(b, current_date, b.court_ids)
              \o BulkDrafts_exclusive_end(b, current_date + 1)
    ELSE <<>>

\* The outer while loop over the days current_date .. end_date.
RECURSIVE BulkDrafts(_, _)
BulkDrafts(b, current_date) ==
    IF current_date <= b.end_date
    THEN IF Weekday(current_date) \in b.exclude_days
         THEN BulkDrafts(b, current_date + 1)
         ELSE CourtSlots(b, current_date, b.court_ids) \o BulkDrafts(b, current_date + 1)
    ELSE <<>>

\* The INSERTs of bulk_create_time_slots in order, each committed on its own:
\* the first one the unique constraint rejects raises and ends the request.
RECURSIVE InsertAll(_, _, _)
InsertAll(store, id, drafts) ==
    IF drafts = <<>>
    THEN [store |-> store, nextId |-> id, ok |-> TRUE]
    ELSE LET d == Head(drafts)
             row == TimeSlot(id, d.tournament_id, d.court_id, d.start_time,
                             d.end_time, d.is_available, d.match_id)
         IN IF unique_court_time_slot(store, row)
            THEN [store |-> store, nextId |-> id, ok |-> FALSE]
            ELSE InsertAll(store \cup {row}, id + 1, Tail(drafts))

\* ------------------------------------------- requests, run to completion
Respond(op, id, status) == last' = [op |-> op, id |-> id, status |-> status]

\* A time-slot request touches no referee table.
RefereesIdle ==
    UNCHANGED <<referees, nextRefereeId, referees_x_tournaments,
                referees_x_matches, matches>>

ProcsIdle == UNCHANGED <<pc, req, loc, resp>> /\ RefereesIdle

\* POST /tournaments/{tournament_id}/time-slots
create_new_time_slot(tournament_id, slot) ==
    LET conflicts == check_slot_conflicts(slots, tournament_id, slot.court_id,
                                          slot.start_time, slot.end_time, NULL)
        row == create_time_slot(nextId, tournament_id, slot)
    IN /\ IF conflicts # {}
          THEN Respond("create", NULL, HTTP_409_CONFLICT) /\ UNCHANGED <<slots, nextId>>
          ELSE IF unique_court_time_slot(slots, row)
          THEN Respond("create", NULL, HTTP_500_INTERNAL_SERVER_ERROR)
               /\ UNCHANGED <<slots, nextId>>
          ELSE /\ nextId <= MaxId
               /\ slots' = slots \cup {row}
               /\ nextId' = nextId + 1
               /\ Respond("create", row.id, HTTP_200_OK)
       /\ ProcsIdle

\* Mutant: the handler that keeps the tournament of the body.
create_time_slots_bulk_body_tournament(tournament_id, bulk_request) ==
    LET drafts == BulkDrafts(bulk_request, bulk_request.start_date)
        r == InsertAll(slots, nextId, drafts)
    IN /\ slots' = r.store
       /\ nextId' = r.nextId
       /\ last' = [op |-> "bulk", id |-> NULL,
                   status |-> IF r.ok THEN HTTP_200_OK
                                      ELSE HTTP_500_INTERNAL_SERVER_ERROR,
                   created_count |-> IF r.ok THEN r.nextId - nextId ELSE NULL]
       /\ ProcsIdle

\* POST /tournaments/{tournament_id}/time-slots/bulk: the tournament of the
\* path replaces the one of the body.  The response carries
\* created_count = len(created_slots); a request that raised has no body.
create_time_slots_bulk(tournament_id, bulk_request) ==
    LET request == [bulk_request EXCEPT !.tournament_id = tournament_id]
        drafts == BulkDrafts(request, request.start_date)
        r == InsertAll(slots, nextId, drafts)
    IN /\ slots' = r.store
       /\ nextId' = r.nextId
       /\ last' = [op |-> "bulk", id |-> NULL,
                   status |-> IF r.ok THEN HTTP_200_OK
                                      ELSE HTTP_500_INTERNAL_SERVER_ERROR,
                   created_count |-> IF r.ok THEN r.nextId - nextId ELSE NULL]
       /\ ProcsIdle

\* The id sequence stays within SlotIds: a bulk request is taken only when
\* all its rows fit.
BulkFits(bulk_request) ==
    nextId + Len(BulkDrafts(bulk_request, bulk_request.start_date)) - 1 <= MaxId

\* PUT /time-slots/{slot_id}
update_time_slot_info(slot_id, updates) ==
    LET found == get_time_slot_by_id(slots, slot_id) IN
    /\ IF found = {}
       THEN Respond("update", slot_id, HTTP_404_NOT_FOUND) /\ UNCHANGED <<slots, nextId>>
       ELSE LET existing_slot == CHOOSE s \in found : TRUE
                Get(k) == IF k \in DOMAIN updates THEN updates[k] ELSE existing_slot[k]
                conflicts ==
                    IF "start_time" \in DOMAIN updates \/ "end_time" \in DOMAIN updates
                    THEN check_slot_conflicts(slots, existing_slot.tournament_id,
                                              existing_slot.court_id, Get("start_time"),
                                              Get("end_time"), slot_id)
                    ELSE {}
            IN IF conflicts # {}
               THEN Respond("update", slot_id, HTTP_409_CONFLICT)
                    /\ UNCHANGED <<slots, nextId>>
               ELSE IF UpdateViolatesUnique(slots, slot_id, updates)
               THEN Respond("update", slot_id, HTTP_500_INTERNAL_SERVER_ERROR)
                    /\ UNCHANGED <<slots, nextId>>
               ELSE /\ slots' = update_time_slot(slots, slot_id, updates)
                    /\ Respond("update", slot_id, HTTP_200_OK)
                    /\ UNCHANGED nextId
    /\ ProcsIdle

\* DELETE /time-slots/{slot_id}
delete_time_slot_by_id(slot_id) ==
    LET found == get_time_slot_by_id(slots, slot_id) IN
    /\ IF found = {}
       THEN Respond("delete", slot_id, HTTP_404_NOT_FOUND) /\ UNCHANGED slots
       ELSE LET slot == CHOOSE s \in found : TRUE IN
            IF Truthy(slot.match_id)
            THEN Respond("delete", slot_id, HTTP_400_BAD_REQUEST) /\ UNCHANGED slots
            ELSE /\ slots' = delete_time_slot(slots, slot_id)
                 /\ Respond("delete", slot_id, HTTP_200_OK)
    /\ UNCHANGED nextId
    /\ ProcsIdle

\* POST /time-slots/{slot_id}/assign-match
assign_match_to_time_slot(slot_id, match_id) ==
    LET found == get_time_slot_by_id(slots, slot_id) IN
    /\ IF found = {}
       THEN Respond("assign", slot_id, HTTP_404_NOT_FOUND) /\ UNCHANGED slots
       ELSE LET slot == CHOOSE s \in found : TRUE IN
            IF ~slot.is_available
            THEN Respond("assign", slot_id, HTTP_400_BAD_REQUEST) /\ UNCHANGED slots
            ELSE IF Truthy(slot.match_id)
            THEN Respond("assign", slot_id, HTTP_400_BAD_REQUEST) /\ UNCHANGED slots
            ELSE /\ slots' = update_time_slot(slots, slot_id, assign_match_to_slot(match_id))
                 /\ Respond("assign", slot_id, HTTP_200_OK)
    /\ UNCHANGED nextId
    /\ ProcsIdle

\* POST /time-slots/{slot_id}/release
release_time_slot(slot_id) ==
    LET found == get_time_slot_by_id(slots, slot_id) IN
    /\ IF found = {}
       THEN Respond("release", slot_id, HTTP_404_NOT_FOUND) /\ UNCHANGED slots
       ELSE LET slot == CHOOSE s \in found : TRUE IN
            IF ~Truthy(slot.match_id)
            THEN Respond("release", slot_id, HTTP_400_BAD_REQUEST) /\ UNCHANGED slots
            ELSE /\ slots' = update_time_slot(slots, slot_id, release_slot)
                 /\ Respond("release", slot_id, HTTP_200_OK)
    /\ UNCHANGED nextId
    /\ ProcsIdle

\* ------------------------------------------------------ request inputs
\* Bodies of create-slot requests on any court, over any pair of instants
\* (the body is not validated: end may be at or before start).
Bodies == {TimeSlotBody(c, st, en, TRUE) : c \in Courts, st \in Times, en \in Times}

\* Bodies with a proper interval: start before end.
ConcBodies == {b \in Bodies : b.start_time < b.end_time}

\* Partial-update dictionaries that move a slot: one bound, both, or the court.
UpdateDicts ==
    {[start_time |-> t] : t \in Times}
    \cup {[end_time |-> t] : t \in Times}
    \cup {[start_time |-> a, end_time |-> b] : a \in Times, b \in Times}
    \cup {[court_id |-> c] : c \in Courts}

\* Bulk requests: one court, from day 0 on, a daily window that closes at
\* tick MaxTime.
BulkRequests ==
    [tournament_id : Tournaments, court_ids : {<<c>> : c \in Courts},
     start_date : {0}, end_date : Days,
     slot_duration_minutes : 1..MaxDuration, break_duration_minutes : 0..MaxBreak,
     daily_start_time : 0..(MaxTime - 1), daily_end_time : {MaxTime},
     exclude_days : {{}, {Weekday(0)}}]

\* Bodies of create-slot requests of unit length on the first court,
\* available or blocked.
AssignBodies == {TimeSlotBody(1, st, st + 1, av) :
                    st \in 0..(MaxTime - 1), av \in BOOLEAN}

\* Partial-update dictionaries that write the assignment columns.
AssignUpdateDicts ==
    {[is_available |-> b] : b \in BOOLEAN}
    \cup {[match_id |-> m] : m \in Matches \cup {NULL}}

\* Bulk requests of the first tournament and court for day 0, with unit slots
\* and no break.
AssignBulkRequests ==
    {b \in BulkRequests : /\ b.tournament_id = 1
                          /\ b.court_ids = <<1>>
                          /\ b.end_date = 0
                          /\ b.slot_duration_minutes = 1
                          /\ b.break_duration_minutes = 0
                          /\ b.exclude_days = {}}

\* ------------------------------------------------------- specifications
NoRequest == [op |-> "none", id |-> NULL, status |-> HTTP_200_OK]

\* The referee tables are empty and no match exists.
NoReferees ==
    /\ referees = {}
    /\ nextRefereeId = 1
    /\ referees_x_tournaments = {}
    /\ referees_x_matches = {}
    /\ matches = {}

Init ==
    /\ slots = {}
    /\ nextId = 1
    /\ last = NoRequest
    /\ pc = [p \in Procs |-> "idle"]
    /\ req = [p \in Procs |-> NoRequest]
    /\ loc = [p \in Procs |-> {}]
    /\ resp = [p \in Procs |-> NULL]
    /\ NoReferees

\* Requests that place slots: create, bulk-create, update of bounds or court,
\* delete.
CreateSlot == \E t \in Tournaments, b \in Bodies : create_new_time_slot(t, b)
BulkCreate ==
    \E b \in BulkRequests : BulkFits(b) /\ create_time_slots_bulk(b.tournament_id, b)
UpdateSlot == \E id \in SlotIds, u \in UpdateDicts : update_time_slot_info(id, u)
DeleteSlot == \E id \in SlotIds : delete_time_slot_by_id(id)

Next ==
    \/ CreateSlot
    \/ BulkCreate
    \/ UpdateSlot
    \/ DeleteSlot

Spec == Init /\ [][Next]_vars

\* Requests of the assignment life cycle on unit slots of the first
\* tournament and court: all six kinds of request.
CreateUnitSlot == \E b \in AssignBodies : create_new_time_slot(1, b)
BulkCreateUnit ==
    \E b \in AssignBulkRequests : BulkFits(b) /\ create_time_slots_bulk(b.tournament_id, b)
UpdateAssignment == \E id \in SlotIds, u \in AssignUpdateDicts : update_time_slot_info(id, u)
AssignMatch == \E id \in SlotIds, m \in Matches : assign_match_to_time_slot(id, m)
ReleaseSlot == \E id \in SlotIds : release_time_slot(id)

NextAssign ==
    \/ CreateUnitSlot
    \/ BulkCreateUnit
    \/ UpdateAssignment
    \/ DeleteSlot
    \/ AssignMatch
    \/ ReleaseSlot

SpecAssign == Init /\ [][NextAssign]_vars


\* --------------------------------------- requests, one statement at a time
\* A handler runs from one await to the next without interruption; every
\* database statement is one step, and the steps of different requests
\* interleave.  Each process serves one request.
SeqIdle == UNCHANGED last /\ RefereesIdle

Goto(p, label) == pc' = [pc EXCEPT ![p] = label]
Reply(p, status) == resp' = [resp EXCEPT ![p] = status] /\ Goto(p, "done")

\* assign_match_to_time_slot: slot = await get_time_slot_by_id(slot_id)
AssignRead(p, slot_id, match_id) ==
    /\ pc[p] = "idle"
    /\ req' = [req EXCEPT ![p] = [op |-> "assign", id |-> slot_id, match_id |-> match_id]]
    /\ loc' = [loc EXCEPT ![p] = get_time_slot_by_id(slots, slot_id)]
    /\ Goto(p, "check")
    /\ UNCHANGED <<slots, nextId, resp>>
    /\ SeqIdle

\* assign_match_to_time_slot: the checks on the slot that was read
AssignCheck(p) ==
    /\ pc[p] = "check" /\ req[p].op = "assign"
    /\ IF loc[p] = {}
       THEN Reply(p, HTTP_404_NOT_FOUND)
       ELSE LET slot == CHOOSE s \in loc[p] : TRUE IN
            IF ~slot.is_available \/ Truthy(slot.match_id)
            THEN Reply(p, HTTP_400_BAD_REQUEST)
            ELSE Goto(p, "write") /\ UNCHANGED resp
    /\ UNCHANGED <<slots, nextId, req, loc>>
    /\ SeqIdle

\* assign_match_to_time_slot: await assign_match_to_slot(slot_id, match_id);
\* the handler returns the row, or null when no row has that id.
AssignWrite(p) ==
    /\ pc[p] = "write" /\ req[p].op = "assign"
    /\ slots' = update_time_slot(slots, req[p].id, assign_match_to_slot(req[p].match_id))
    /\ Reply(p, HTTP_200_OK)
    /\ UNCHANGED <<nextId, req, loc>>
    /\ SeqIdle

\* delete_time_slot_by_id: slot = await get_time_slot_by_id(slot_id)
DeleteRead(p, slot_id) ==
    /\ pc[p] = "idle"
    /\ req' = [req EXCEPT ![p] = [op |-> "delete", id |-> slot_id]]
    /\ loc' = [loc EXCEPT ![p] = get_time_slot_by_id(slots, slot_id)]
    /\ Goto(p, "check")
    /\ UNCHANGED <<slots, nextId, resp>>
    /\ SeqIdle

\* delete_time_slot_by_id: the checks on the slot that was read
DeleteCheck(p) ==
    /\ pc[p] = "check" /\ req[p].op = "delete"
    /\ IF loc[p] = {}
       THEN Reply(p, HTTP_404_NOT_FOUND)
       ELSE LET slot == CHOOSE s \in loc[p] : TRUE IN
            IF Truthy(slot.match_id)
            THEN Reply(p, HTTP_400_BAD_REQUEST)
            ELSE Goto(p, "write") /\ UNCHANGED resp
    /\ UNCHANGED <<slots, nextId, req, loc>>
    /\ SeqIdle

\* delete_time_slot_by_id: deleted = await delete_time_slot(slot_id)
DeleteWrite(p) ==
    /\ pc[p] = "write" /\ req[p].op = "delete"
    /\ slots' = delete_time_slot(slots, req[p].id)
    /\ Reply(p, IF get_time_slot_by_id(slots, req[p].id) # {}
                THEN HTTP_200_OK ELSE HTTP_500_INTERNAL_SERVER_ERROR)
    /\ UNCHANGED <<nextId, req, loc>>
    /\ SeqIdle

\* create_new_time_slot: conflicts = await check_slot_conflicts(...)
CreateRead(p, tournament_id, slot) ==
    /\ pc[p] = "idle"
    /\ req' = [req EXCEPT ![p] =
                  [op |-> "create", id |-> NULL, tournament_id |-> tournament_id,
                   slot |-> slot]]
    /\ loc' = [loc EXCEPT ![p] =
                  check_slot_conflicts(slots, tournament_id, slot.court_id,
                                       slot.start_time, slot.end_time, NULL)]
    /\ Goto(p, "check")
    /\ UNCHANGED <<slots, nextId, resp>>
    /\ SeqIdle

\* create_new_time_slot: if conflicts: raise 409
CreateCheck(p) ==
    /\ pc[p] = "check" /\ req[p].op = "create"
    /\ IF loc[p] # {}
       THEN Reply(p, HTTP_409_CONFLICT)
       ELSE Goto(p, "write") /\ UNCHANGED resp
    /\ UNCHANGED <<slots, nextId, req, loc>>
    /\ SeqIdle

\* create_new_time_slot: return await create_time_slot(tournament_id, slot)
CreateWrite(p) ==
    /\ pc[p] = "write" /\ req[p].op = "create"
    /\ LET row == create_time_slot(nextId, req[p].tournament_id, req[p].slot) IN
       IF unique_court_time_slot(slots, row)
       THEN Reply(p, HTTP_500_INTERNAL_SERVER_ERROR) /\ UNCHANGED <<slots, nextId, req>>
       ELSE /\ slots' = slots \cup {row}
            /\ nextId' = nextId + 1
            /\ req' = [req EXCEPT ![p].id = row.id]
            /\ Reply(p, HTTP_200_OK)
    /\ UNCHANGED loc
    /\ SeqIdle

\* The store when the concurrent requests arrive: empty, or holding the slot
\* of one earlier create-slot request.
ConcStores == {{}} \cup {{create_time_slot(1, 1, b)} : b \in ConcBodies}

InitConc ==
    /\ slots \in ConcStores
    /\ nextId = Cardinality(slots) + 1
    /\ last = NoRequest
    /\ pc = [p \in Procs |-> "idle"]
    /\ req = [p \in Procs |-> NoRequest]
    /\ loc = [p \in Procs |-> {}]
    /\ resp = [p \in Procs |-> NULL]
    /\ NoReferees

NextConc ==
    \/ \E p \in Procs, id \in SlotIds, m \in Matches : AssignRead(p, id, m)
    \/ \E p \in Procs : AssignCheck(p)
    \/ \E p \in Procs : AssignWrite(p)
    \/ \E p \in Procs, id \in SlotIds : DeleteRead(p, id)
    \/ \E p \in Procs : DeleteCheck(p)
    \/ \E p \in Procs : DeleteWrite(p)
    \/ \E p \in Procs, t \in Tournaments, b \in ConcBodies : CreateRead(p, t, b)
    \/ \E p \in Procs : CreateCheck(p)
    \/ \E p \in Procs : CreateWrite(p)

SpecConc == InitConc /\ [][NextConc]_vars


\* ------------------------------------------- the conflict query on its own
\* A call of check_slot_conflicts on the store as it is, its arguments and
\* its result kept in `last`.
ConflictQuery(tournament_id, court_id, start_time, end_time, exclude_slot_id) ==
    /\ last' = [op |-> "check", id |-> exclude_slot_id, status |-> HTTP_200_OK,
                tournament_id |-> tournament_id, court_id |-> court_id,
                start_time |-> start_time, end_time |-> end_time,
                conflicts |-> check_slot_conflicts(slots, tournament_id, court_id,
                                                   start_time, end_time, exclude_slot_id)]
    /\ UNCHANGED <<slots, nextId>>
    /\ ProcsIdle

\* The stores the query is called on: up to two rows, as inserted by
\* create_time_slot for any tournament, court and proper interval, that the
\* unique constraint admits.
CheckStores ==
    {{}}
    \cup {{create_time_slot(1, t, b)} : t \in Tournaments, b \in ConcBodies}
    \cup {st \in {{create_time_slot(1, t1, b1), create_time_slot(2, t2, b2)} :
                     t1 \in Tournaments, b1 \in ConcBodies,
                     t2 \in Tournaments, b2 \in ConcBodies} :
             \A row \in st : ~unique_court_time_slot(st, row)}

InitCheck ==
    /\ slots \in CheckStores
    /\ nextId = Cardinality(slots) + 1
    /\ last = NoRequest
    /\ pc = [p \in Procs |-> "idle"]
    /\ req = [p \in Procs |-> NoRequest]
    /\ loc = [p \in Procs |-> {}]
    /\ resp = [p \in Procs |-> NULL]
    /\ NoReferees

\* One call of the query, with any arguments.
QueryConflicts ==
    /\ last = NoRequest
    /\ \E t \in Tournaments, c \in Courts, st \in Times, en \in Times,
          x \in SlotIds \cup {NULL} : ConflictQuery(t, c, st, en, x)

NextCheck == QueryConflicts

SpecCheck == InitCheck /\ [][NextCheck]_vars


\* ------------------------------------------------ update-slot on its own
\* Partial-update dictionaries that supply a bound, alone or with the court.
BoundDicts ==
    {u \in UpdateDicts : "start_time" \in DOMAIN u \/ "end_time" \in DOMAIN u}
    \cup {[start_time |-> a, court_id |-> c] : a \in Times, c \in Courts}

\* One update-slot request on a store of up to two slots.
UpdateBounds ==
    /\ last = NoRequest
    /\ \E id \in SlotIds, u \in BoundDicts : update_time_slot_info(id, u)

NextUpdate == UpdateBounds

SpecUpdate == InitCheck /\ [][NextUpdate]_vars

\* ------------------------------------------- bulk generation on its own
\* The court lists of a bulk request: one court, or two distinct courts in
\* either order.
CourtLists ==
    {<<c>> : c \in Courts}
    \cup {<<p[1], p[2]>> : p \in {q \in Courts \X Courts : q[1] # q[2]}}

\* Bulk requests over the whole grid: days 0 .. end_date, any daily window
\* (also an empty or reversed one), any slot and break length, no weekday or
\* one weekday excluded.
GridRequests ==
    [tournament_id : Tournaments, court_ids : CourtLists,
     start_date : {0}, end_date : Days,
     slot_duration_minutes : 1..MaxDuration, break_duration_minutes : 0..MaxBreak,
     daily_start_time : 0..MaxTick, daily_end_time : 0..MaxTick,
     exclude_days : {{}} \cup {{Weekday(d)} : d \in Days}]

\* The store a bulk request finds: empty, or one slot of unit length on the
\* first court on day 0.
GridStores ==
    {{}} \cup {{TimeSlot(1, 1, 1, Combine(0, a), Combine(0, a) + 1, TRUE, NULL)} :
                  a \in 0..MaxTick}

\* A bulk request has arrived: its path tournament and its body.
InitBulk ==
    /\ slots \in GridStores
    /\ nextId = Cardinality(slots) + 1
    /\ last = NoRequest
    /\ pc = [p \in Procs |-> "idle"]
    /\ \E t \in Tournaments, b \in GridRequests :
          req = [p \in Procs |->
                    IF p = 1 THEN [op |-> "bulk", id |-> NULL, tournament_id |-> t,
                                   bulk_request |-> b]
                             ELSE NoRequest]
    /\ loc = [p \in Procs |-> {}]
    /\ resp = [p \in Procs |-> NULL]
    /\ NoReferees

\* The request is served.
BulkGenerate ==
    /\ last = NoRequest
    /\ create_time_slots_bulk(req[1].tournament_id, req[1].bulk_request)

NextBulk == BulkGenerate

SpecBulk == InitBulk /\ [][NextBulk]_vars

\* ------------------------------------------------------ the referee tables
\* A row of referees (the columns the queries read).
Referee(id, active) == [id |-> id, active |-> active]

\* A row of referees_x_tournaments.
RefereeAvailability(referee_id, tournament_id, available_from, available_to) ==
    [referee_id |-> referee_id, tournament_id |-> tournament_id,
     available_from |-> available_from, available_to |-> available_to]

\* An optional value: <<>> when it is None (or NULL), <<v>> when it is v.
None == <<>>
Some(v) == <<v>>

\* A row of referees_x_matches as assign_referee_to_match inserts it for a
\* request that leaves confirmed and notes at their defaults (False, None).
RefereeAssignment(referee_id, match_id, role) ==
    [referee_id |-> referee_id, match_id |-> match_id, role |-> role,
     confirmed |-> FALSE, notes |-> None]

\* A row of matches.
Match(id, start_time, duration_minutes, margin_minutes) ==
    [id |-> id, start_time |-> start_time, duration_minutes |-> duration_minutes,
     margin_minutes |-> margin_minutes]

\* SELECT ... FROM referees WHERE id = referee_id (empty: None).
get_referee_by_id(referee_id) == {r \in referees : r.id = referee_id}

\* Mutant: a declared window that merely overlaps the proposal.
AvailabilityFilter_overlap(x, tournament_id, start_time, end_time) ==
    /\ x.tournament_id = tournament_id
    /\ x.available_from < end_time
    /\ x.available_to > start_time

\* The WHERE clause of the first query of
\* get_available_referees_for_time_slot on a row of referees_x_tournaments.
AvailabilityFilter(x, tournament_id, start_time, end_time) ==
    /\ x.tournament_id = tournament_id
    /\ x.available_from <= start_time
    /\ x.available_to >= end_time

\* Mutant: the conflict query without the margin.
ConflictCount_no_margin(referee_id, start_time, end_time) ==
    Cardinality({j \in referees_x_matches \X matches :
                    /\ j[1].match_id = j[2].id
                    /\ j[1].referee_id = referee_id
                    /\ j[2].start_time < end_time
                    /\ j[2].start_time + j[2].duration_minutes > start_time})

\* SELECT COUNT(*) FROM referees_x_matches rxm JOIN matches m ON ...: the
\* number of assignments of the referee to a match that runs into the range.
ConflictCount(referee_id, start_time, end_time) ==
    Cardinality({j \in referees_x_matches \X matches :
                    /\ j[1].match_id = j[2].id
                    /\ j[1].referee_id = referee_id
                    /\ j[2].start_time < end_time
                    /\ j[2].start_time + (j[2].duration_minutes + j[2].margin_minutes)
                          > start_time})

\* The referees the function returns.
get_available_referees_for_time_slot(tournament_id, start_time, end_time) ==
    LET result ==
            {r \in referees :
                /\ r.active
                /\ \E x \in referees_x_tournaments :
                      /\ x.referee_id = r.id
                      /\ AvailabilityFilter(x, tournament_id, start_time, end_time)}
    IN {r \in result : ConflictCount(r.id, start_time, end_time) = 0}

\* UniqueConstraint('referee_id', 'match_id', 'role').
unique_referee_match_role(row) ==
    \E a \in referees_x_matches :
        /\ a.referee_id = row.referee_id
        /\ a.match_id = row.match_id
        /\ a.role = row.role

\* Mutant: the link tables without their foreign key on referees.
fk_referee_off(referee_id) == TRUE

\* ForeignKeyConstraint(['referee_id'], ['referees.id']) of the two link
\* tables: an inserted row must name a referee that exists.
fk_referee(referee_id) == get_referee_by_id(referee_id) # {}

\* Mutant: the availability table without its unique constraint.
unique_referee_tournament_off(row) == FALSE

\* UniqueConstraint('referee_id', 'tournament_id').
unique_referee_tournament(row) ==
    \E x \in referees_x_tournaments :
        x.referee_id = row.referee_id /\ x.tournament_id = row.tournament_id

\* Mutant: every role is accepted.
valid_roles_any == {"main", "assistant", "line_judge", "video_referee", "umpire"}

\* valid_roles of assign_referee.
valid_roles == {"main", "assistant", "line_judge", "video_referee"}

\* The roles the requests name: two of the enumeration and one outside it.
Roles == {"main", "assistant", "umpire"}

\* -------------------------------------------------------- referee requests
SlotsIdle == UNCHANGED <<slots, nextId, pc, req, loc, resp>>

\* GET /tournaments/{tournament_id}/referees/available
get_available_referees(tournament_id, start_time, end_time) ==
    /\ last' = [op |-> "available", id |-> NULL, status |-> HTTP_200_OK,
                tournament_id |-> tournament_id, start_time |-> start_time,
                end_time |-> end_time,
                referees |-> get_available_referees_for_time_slot(
                                 tournament_id, start_time, end_time)]
    /\ RefereesIdle
    /\ SlotsIdle

\* POST /referees
create_new_referee(referee) ==
    /\ referees' = referees \cup {Referee(nextRefereeId, referee.active)}
    /\ nextRefereeId' = nextRefereeId + 1
    /\ Respond("create_referee", nextRefereeId, HTTP_200_OK)
    /\ UNCHANGED <<referees_x_tournaments, referees_x_matches, matches>>
    /\ SlotsIdle

\* DELETE /referees/{referee_id}: the rows of the two link tables go with the
\* referee (ondelete CASCADE).
delete_referee_by_id(referee_id) ==
    /\ IF get_referee_by_id(referee_id) = {}
       THEN /\ Respond("delete_referee", referee_id, HTTP_404_NOT_FOUND)
            /\ UNCHANGED <<referees, referees_x_tournaments, referees_x_matches>>
       ELSE /\ referees' = {r \in referees : r.id # referee_id}
            /\ referees_x_tournaments' =
                   {x \in referees_x_tournaments : x.referee_id # referee_id}
            /\ referees_x_matches' =
                   {a \in referees_x_matches : a.referee_id # referee_id}
            /\ Respond("delete_referee", referee_id, HTTP_200_OK)
    /\ UNCHANGED <<nextRefereeId, matches>>
    /\ SlotsIdle

\* Mutant: an assignment that inserts before it validates the role.
assign_referee_insert_first(match_id, referee_id, role) ==
    /\ IF get_referee_by_id(referee_id) = {}
       THEN /\ Respond("assign_referee", referee_id, HTTP_404_NOT_FOUND)
            /\ UNCHANGED referees_x_matches
       ELSE IF unique_referee_match_role(RefereeAssignment(referee_id, match_id, role))
       THEN /\ Respond("assign_referee", referee_id, HTTP_500_INTERNAL_SERVER_ERROR)
            /\ UNCHANGED referees_x_matches
       ELSE /\ referees_x_matches' =
                   referees_x_matches
                       \cup {RefereeAssignment(referee_id, match_id, role)}
            /\ Respond("assign_referee", referee_id,
                       IF role \in valid_roles THEN HTTP_200_OK
                                               ELSE HTTP_400_BAD_REQUEST)
    /\ UNCHANGED <<referees, nextRefereeId, referees_x_tournaments, matches>>
    /\ SlotsIdle

\* POST /matches/{match_id}/referees/{referee_id}
assign_referee(match_id, referee_id, role) ==
    /\ IF get_referee_by_id(referee_id) = {}
       THEN /\ Respond("assign_referee", referee_id, HTTP_404_NOT_FOUND)
            /\ UNCHANGED referees_x_matches
       ELSE IF role \notin valid_roles
       THEN /\ Respond("assign_referee", referee_id, HTTP_400_BAD_REQUEST)
            /\ UNCHANGED referees_x_matches
       ELSE IF unique_referee_match_role(RefereeAssignment(referee_id, match_id, role))
       THEN /\ Respond("assign_referee", referee_id, HTTP_500_INTERNAL_SERVER_ERROR)
            /\ UNCHANGED referees_x_matches
       ELSE /\ referees_x_matches' =
                   referees_x_matches
                       \cup {RefereeAssignment(referee_id, match_id, role)}
            /\ Respond("assign_referee", referee_id, HTTP_200_OK)
    /\ UNCHANGED <<referees, nextRefereeId, referees_x_tournaments, matches>>
    /\ SlotsIdle

\* Mutant: a removal that deletes the main-referee record only.
remove_referee_from_match_main_only(match_id, referee_id) ==
    LET rows == {a \in referees_x_matches :
                    a.referee_id = referee_id /\ a.match_id = match_id}
    IN /\ referees_x_matches' =
              referees_x_matches \ {a \in rows : a.role = "main"}
       /\ Respond("remove_referee", referee_id,
                  IF rows # {} THEN HTTP_200_OK ELSE HTTP_404_NOT_FOUND)
       /\ UNCHANGED <<referees, nextRefereeId, referees_x_tournaments, matches>>
       /\ SlotsIdle

\* DELETE /matches/{match_id}/referees/{referee_id}
remove_referee_from_match_endpoint(match_id, referee_id) ==
    LET rows == {a \in referees_x_matches :
                    a.referee_id = referee_id /\ a.match_id = match_id}
    IN /\ referees_x_matches' = referees_x_matches \ rows
       /\ Respond("remove_referee", referee_id,
                  IF rows # {} THEN HTTP_200_OK ELSE HTTP_404_NOT_FOUND)
       /\ UNCHANGED <<referees, nextRefereeId, referees_x_tournaments, matches>>
       /\ SlotsIdle

\* Mutant: an update that writes both columns, the one not supplied with
\* its default.
update_referee_assignment_overwrite(referee_id, match_id, confirmed, notes) ==
    LET hit == {a \in referees_x_matches :
                   a.referee_id = referee_id /\ a.match_id = match_id}
    IN [found |-> hit # {},
        rows |-> {IF a \in hit
                  THEN [a EXCEPT !.confirmed = IF confirmed # None
                                               THEN confirmed[1] ELSE FALSE,
                                 !.notes = notes]
                  ELSE a : a \in referees_x_matches}]

\* Mutant: an update that addresses the main-referee record alone.
update_referee_assignment_main_only(referee_id, match_id, confirmed, notes) ==
    LET hit == {a \in referees_x_matches :
                   /\ a.referee_id = referee_id /\ a.match_id = match_id
                   /\ a.role = "main"}
    IN IF confirmed = None /\ notes = None
       THEN [found |-> FALSE, rows |-> referees_x_matches]
       ELSE [found |-> hit # {},
             rows |-> {IF a \in hit
                       THEN [a EXCEPT !.confirmed = IF confirmed # None
                                                    THEN confirmed[1] ELSE @,
                                      !.notes = IF notes # None
                                                THEN notes ELSE @]
                       ELSE a : a \in referees_x_matches}]

\* update_referee_assignment: the supplied columns are written on the rows
\* of the (referee, match) pair; with nothing supplied no statement is
\* issued and the result is None.
update_referee_assignment(referee_id, match_id, confirmed, notes) ==
    LET hit == {a \in referees_x_matches :
                   a.referee_id = referee_id /\ a.match_id = match_id}
    IN IF confirmed = None /\ notes = None
       THEN [found |-> FALSE, rows |-> referees_x_matches]
       ELSE [found |-> hit # {},
             rows |-> {IF a \in hit
                       THEN [a EXCEPT !.confirmed = IF confirmed # None
                                                    THEN confirmed[1] ELSE @,
                                      !.notes = IF notes # None
                                                THEN notes ELSE @]
                       ELSE a : a \in referees_x_matches}]

\* PUT /matches/{match_id}/referees/{referee_id}
update_referee_match_assignment(match_id, referee_id, confirmed, notes) ==
    LET updated == update_referee_assignment(referee_id, match_id,
                                             confirmed, notes)
    IN /\ referees_x_matches' = updated.rows
       /\ Respond("update_assignment", referee_id,
                  IF updated.found THEN HTTP_200_OK ELSE HTTP_404_NOT_FOUND)
       /\ UNCHANGED <<referees, nextRefereeId, referees_x_tournaments, matches>>
       /\ SlotsIdle

\* POST /tournaments/{tournament_id}/referees/{referee_id}: the referee and
\* the tournament of the path are stored with the window of the body.
add_referee_availability(tournament_id, referee_id, availability) ==
    LET row == RefereeAvailability(referee_id, tournament_id,
                                   availability.available_from,
                                   availability.available_to)
    IN /\ IF get_referee_by_id(referee_id) = {}
          THEN /\ Respond("declare", referee_id, HTTP_404_NOT_FOUND)
               /\ UNCHANGED referees_x_tournaments
          ELSE IF unique_referee_tournament(row)
          THEN /\ Respond("declare", referee_id, HTTP_500_INTERNAL_SERVER_ERROR)
               /\ UNCHANGED referees_x_tournaments
          ELSE /\ referees_x_tournaments' = referees_x_tournaments \cup {row}
               /\ Respond("declare", referee_id, HTTP_200_OK)
       /\ UNCHANGED <<referees, nextRefereeId, referees_x_matches, matches>>
       /\ SlotsIdle

\* --------------------------------------- the availability query on its own
\* Declared windows: proper ranges of times of day.
Windows == {w \in (0..MaxTick) \X (0..MaxTick) : w[1] < w[2]}

\* What is stored about the first referee: active or not, no availability
\* record or one record for some tournament and window, and no assignment
\* or one to some match in some role.
RefereeAvailabilities(referee_id) ==
    {{}} \cup {{RefereeAvailability(referee_id, t, w[1], w[2])} :
                  t \in Tournaments, w \in Windows}

RefereeAssignments(referee_id) ==
    {{}} \cup {{RefereeAssignment(referee_id, m, role)} :
                  m \in Matches, role \in {"main", "assistant"}}

\* What is stored about every other referee: active or not, a record for
\* the first tournament that covers the whole day, and no assignment or the
\* main role on the first match.
OtherAvailability(referee_id) == RefereeAvailability(referee_id, 1, 0, MaxTick)

\* The rows of the matches table: the first match with some start, duration
\* and margin, every other match at the start of the day.
MatchTables ==
    {{Match(m, IF m = 1 THEN f[1] ELSE 0, IF m = 1 THEN f[2] ELSE 1,
               IF m = 1 THEN f[3] ELSE 0) : m \in Matches} :
        f \in (0..MaxTime) \X (1..MaxDuration) \X (0..MaxMargin)}

\* All referees exist, each with its own records.
InitAvail ==
    /\ slots = {}
    /\ nextId = 1
    /\ last = NoRequest
    /\ pc = [p \in Procs |-> "idle"]
    /\ req = [p \in Procs |-> NoRequest]
    /\ loc = [p \in Procs |-> {}]
    /\ resp = [p \in Procs |-> NULL]
    /\ \E active \in [RefereeIds -> BOOLEAN] :
          referees = {Referee(r, active[r]) : r \in RefereeIds}
    /\ nextRefereeId = MaxReferee + 1
    /\ \E x \in RefereeAvailabilities(1) :
          referees_x_tournaments =
              x \cup {OtherAvailability(r) : r \in RefereeIds \ {1}}
    /\ \E a \in RefereeAssignments(1) :
       \E busy \in SUBSET (RefereeIds \ {1}) :
          referees_x_matches =
              a \cup {RefereeAssignment(r, 1, "main") : r \in busy}
    /\ matches \in MatchTables

\* One call of the query, for a proper range.
QueryAvailable ==
    /\ last = NoRequest
    /\ \E t \in Tournaments, w \in Windows : get_available_referees(t, w[1], w[2])

NextAvail == QueryAvailable

SpecAvail == InitAvail /\ [][NextAvail]_vars

\* ------------------------------------------------ referees and assignments
\* Bodies of create-referee requests.
RefereeBodies == {[active |-> b] : b \in BOOLEAN}

\* Every match exists.
InitReferee ==
    /\ slots = {}
    /\ nextId = 1
    /\ last = NoRequest
    /\ pc = [p \in Procs |-> "idle"]
    /\ req = [p \in Procs |-> NoRequest]
    /\ loc = [p \in Procs |-> {}]
    /\ resp = [p \in Procs |-> NULL]
    /\ referees = {}
    /\ nextRefereeId = 1
    /\ referees_x_tournaments = {}
    /\ referees_x_matches = {}
    /\ matches = {Match(m, 0, 1, 0) : m \in Matches}

CreateReferee ==
    /\ nextRefereeId <= MaxReferee
    /\ \E b \in RefereeBodies : create_new_referee(b)
DeleteReferee == \E r \in RefereeIds : delete_referee_by_id(r)
\* Assignments are requested and removed on the first match.
AssignReferee ==
    \E r \in RefereeIds, role \in Roles : assign_referee(1, r, role)
RemoveReferee ==
    \E r \in RefereeIds : remove_referee_from_match_endpoint(1, r)

NextReferee ==
    \/ CreateReferee
    \/ DeleteReferee
    \/ AssignReferee
    \/ RemoveReferee

SpecReferee == InitReferee /\ [][NextReferee]_vars

\* ------------------------------------------------ declaring availability
\* Every referee and every match exists; nothing is declared or assigned.
InitStaffed ==
    /\ slots = {}
    /\ nextId = 1
    /\ last = NoRequest
    /\ pc = [p \in Procs |-> "idle"]
    /\ req = [p \in Procs |-> NoRequest]
    /\ loc = [p \in Procs |-> {}]
    /\ resp = [p \in Procs |-> NULL]
    /\ referees = {Referee(r, TRUE) : r \in RefereeIds}
    /\ nextRefereeId = MaxReferee + 1
    /\ referees_x_tournaments = {}
    /\ referees_x_matches = {}
    /\ matches = {Match(m, 0, 1, 0) : m \in Matches}

\* Bodies of declare-availability requests: the whole day, and the same
\* window reversed (the body is not validated).
AvailabilityBodies ==
    {[available_from |-> 0, available_to |-> MaxTick],
     [available_from |-> MaxTick, available_to |-> 0]}

DeclareAvailability ==
    \E t \in Tournaments, r \in RefereeIds, b \in AvailabilityBodies :
        add_referee_availability(t, r, b)

NextDeclare ==
    \/ DeclareAvailability
    \/ DeleteReferee

SpecDeclare == InitStaffed /\ [][NextDeclare]_vars

\* ------------------------------------------------- assignment records
\* Query parameters of an assignment update: each one supplied or not.
ConfirmedParams == {None, Some(TRUE), Some(FALSE)}
NotesParams == {None, Some("ok")}

\* The requests name the first match. Every referee can be its main
\* referee; the first one can be its assistant too.
RecordAssign ==
    \/ \E r \in RefereeIds : assign_referee(1, r, "main")
    \/ assign_referee(1, 1, "assistant")
RecordUpdate ==
    \E r \in RefereeIds,
       confirmed \in ConfirmedParams, notes \in NotesParams :
        update_referee_match_assignment(1, r, confirmed, notes)
RecordRemove ==
    \E r \in RefereeIds : remove_referee_from_match_endpoint(1, r)

NextRecord ==
    \/ RecordAssign
    \/ RecordUpdate
    \/ RecordRemove

SpecRecord == InitStaffed /\ [][NextRecord]_vars

\* ------------------------------- referee requests, one statement at a time
\* The referees exist; the first one may have an availability record and an
\* assignment already.
InitStaff ==
    /\ slots = {}
    /\ nextId = 1
    /\ last = NoRequest
    /\ pc = [p \in Procs |-> "idle"]
    /\ req = [p \in Procs |-> NoRequest]
    /\ loc = [p \in Procs |-> {}]
    /\ resp = [p \in Procs |-> NULL]
    /\ referees = {Referee(r, TRUE) : r \in RefereeIds}
    /\ nextRefereeId = MaxReferee + 1
    /\ referees_x_tournaments \in
           {{}, {RefereeAvailability(1, 1, 0, MaxTick)}}
    /\ referees_x_matches \in {{}, {RefereeAssignment(1, 1, "main")}}
    /\ matches = {Match(m, 0, 1, 0) : m \in Matches}

StaffIdle == UNCHANGED <<slots, nextId, last, nextRefereeId, matches>>

\* assign_referee: referee = await get_referee_by_id(referee_id), and the
\* checks on what was read.
StaffAssignRead(p, match_id, referee_id, role) ==
    /\ pc[p] = "idle"
    /\ req' = [req EXCEPT ![p] = [op |-> "assign_referee", id |-> referee_id,
                                  match_id |-> match_id, role |-> role]]
    /\ loc' = [loc EXCEPT ![p] = get_referee_by_id(referee_id)]
    /\ IF get_referee_by_id(referee_id) = {}
       THEN Reply(p, HTTP_404_NOT_FOUND)
       ELSE IF role \notin valid_roles
       THEN Reply(p, HTTP_400_BAD_REQUEST)
       ELSE Goto(p, "write") /\ UNCHANGED resp
    /\ UNCHANGED <<referees, referees_x_tournaments, referees_x_matches>>
    /\ StaffIdle

\* assign_referee: await assign_referee_to_match(...); the INSERT is
\* rejected when a constraint of the table fails.
StaffAssignWrite(p) ==
    /\ pc[p] = "write" /\ req[p].op = "assign_referee"
    /\ LET row == RefereeAssignment(req[p].id, req[p].match_id, req[p].role)
       IN IF ~fk_referee(row.referee_id) \/ unique_referee_match_role(row)
          THEN /\ Reply(p, HTTP_500_INTERNAL_SERVER_ERROR)
               /\ UNCHANGED referees_x_matches
          ELSE /\ referees_x_matches' = referees_x_matches \cup {row}
               /\ Reply(p, HTTP_200_OK)
    /\ UNCHANGED <<req, loc, referees, referees_x_tournaments>>
    /\ StaffIdle

\* add_referee_availability: referee = await get_referee_by_id(referee_id)
StaffDeclareRead(p, tournament_id, referee_id, availability) ==
    /\ pc[p] = "idle"
    /\ req' = [req EXCEPT ![p] = [op |-> "declare", id |-> referee_id,
                                  tournament_id |-> tournament_id,
                                  availability |-> availability]]
    /\ loc' = [loc EXCEPT ![p] = get_referee_by_id(referee_id)]
    /\ IF get_referee_by_id(referee_id) = {}
       THEN Reply(p, HTTP_404_NOT_FOUND)
       ELSE Goto(p, "write") /\ UNCHANGED resp
    /\ UNCHANGED <<referees, referees_x_tournaments, referees_x_matches>>
    /\ StaffIdle

\* add_referee_availability: await add_referee_to_tournament(...)
StaffDeclareWrite(p) ==
    /\ pc[p] = "write" /\ req[p].op = "declare"
    /\ LET row == RefereeAvailability(req[p].id, req[p].tournament_id,
                                      req[p].availability.available_from,
                                      req[p].availability.available_to)
       IN IF ~fk_referee(row.referee_id) \/ unique_referee_tournament(row)
          THEN /\ Reply(p, HTTP_500_INTERNAL_SERVER_ERROR)
               /\ UNCHANGED referees_x_tournaments
          ELSE /\ referees_x_tournaments' = referees_x_tournaments \cup {row}
               /\ Reply(p, HTTP_200_OK)
    /\ UNCHANGED <<req, loc, referees, referees_x_matches>>
    /\ StaffIdle

\* delete_referee_by_id: deleted = await delete_referee(referee_id), one
\* DELETE statement whose cascade is part of it.
StaffDelete(p, referee_id) ==
    /\ pc[p] = "idle"
    /\ req' = [req EXCEPT ![p] = [op |-> "delete_referee", id |-> referee_id]]
    /\ referees' = {r \in referees : r.id # referee_id}
    /\ referees_x_tournaments' =
           {x \in referees_x_tournaments : x.referee_id # referee_id}
    /\ referees_x_matches' =
           {a \in referees_x_matches : a.referee_id # referee_id}
    /\ Reply(p, IF get_referee_by_id(referee_id) # {}
                THEN HTTP_200_OK ELSE HTTP_404_NOT_FOUND)
    /\ UNCHANGED loc
    /\ StaffIdle

NextStaff ==
    \/ \E p \in Procs, m \in Matches, r \in RefereeIds, role \in Roles :
           StaffAssignRead(p, m, r, role)
    \/ \E p \in Procs : StaffAssignWrite(p)
    \/ \E p \in Procs, r \in RefereeIds :
           StaffDeclareRead(p, 1, r, [available_from |-> 0,
                                      available_to |-> MaxTick])
    \/ \E p \in Procs : StaffDeclareWrite(p)
    \/ \E p \in Procs, r \in RefereeIds : StaffDelete(p, r)

SpecStaff == InitStaff /\ [][NextStaff]_vars

\* ------------------------------------- every way a slot gets its interval
\* Two create-slot requests for the first court run statement by statement;
\* one bulk request for day 0 or one update-slot request that moves a slot is
\* served between their statements.
UniqueBodies == {b \in ConcBodies : b.court_id = 1}
UniqueBulkRequests ==
    {b \in BulkRequests : /\ b.court_ids = <<1>>
                          /\ b.end_date = 0
                          /\ b.break_duration_minutes = 0
                          /\ b.exclude_days = {}}
UniqueUpdateDicts ==
    {[start_time |-> b.start_time, end_time |-> b.end_time] : b \in UniqueBodies}
    \cup {[court_id |-> c] : c \in Courts}

UniqueBulk ==
    /\ last = NoRequest
    /\ \E b \in UniqueBulkRequests :
           BulkFits(b) /\ create_time_slots_bulk(b.tournament_id, b)
UniqueUpdate ==
    /\ last = NoRequest
    /\ \E id \in SlotIds, u \in UniqueUpdateDicts : update_time_slot_info(id, u)

NextUnique ==
    \/ \E p \in Procs, t \in Tournaments, b \in UniqueBodies : CreateRead(p, t, b)
    \/ \E p \in Procs : CreateCheck(p)
    \/ \E p \in Procs : CreateWrite(p)
    \/ UniqueBulk
    \/ UniqueUpdate

SpecUnique == InitConc /\ [][NextUnique]_vars

\* ----------------------------------- bulk generation, one iteration at a time
\* The earliest instant a datetime can hold lies MaxPast ticks before day 0;
\* arithmetic that passes it raises OverflowError.
MaxPast == 3
MinInstant == 0 - MaxPast

\* Bulk requests as TimeSlotBulkCreate accepts them: the two durations are
\* plain integers, zero and negative values included.
LoopRequests ==
    [tournament_id : {1}, court_ids : {<<1>>, <<1, 2>>},
     start_date : {0}, end_date : Days,
     slot_duration_minutes : 0..MaxDuration,
     break_duration_minutes : (0 - MaxDuration)..MaxBreak,
     daily_start_time : {0, 1}, daily_end_time : {MaxTick},
     exclude_days : {{}, {Weekday(0)}}]

\* bulk_create_time_slots is entered with an empty table; loc[1] holds its
\* local variables current_date, the position in court_ids and current_time.
InitLoop ==
    /\ slots = {}
    /\ nextId = 1
    /\ last = NoRequest
    /\ pc = [p \in Procs |-> IF p = 1 THEN "day" ELSE "idle"]
    /\ \E b \in LoopRequests :
          /\ req = [p \in Procs |->
                       IF p = 1 THEN [op |-> "bulk", id |-> NULL,
                                      tournament_id |-> b.tournament_id,
                                      bulk_request |-> b]
                                ELSE NoRequest]
          /\ loc = [p \in Procs |->
                       IF p = 1 THEN [current_date |-> b.start_date,
                                      court |-> 1, current_time |-> 0]
                                ELSE {}]
    /\ resp = [p \in Procs |-> NULL]
    /\ NoReferees

LoopIdle == UNCHANGED <<last, req>> /\ RefereesIdle

\* while current_date <= end_date: ... (an excluded weekday is skipped);
\* after the loop the function returns.
BulkDayStep ==
    LET b == req[1].bulk_request
        v == loc[1]
    IN /\ pc[1] = "day"
       /\ IF ~(v.current_date <= b.end_date)
          THEN Reply(1, HTTP_200_OK) /\ UNCHANGED loc
          ELSE IF Weekday(v.current_date) \in b.exclude_days
          THEN /\ loc' = [loc EXCEPT ![1].current_date = @ + 1]
               /\ UNCHANGED <<pc, resp>>
          ELSE /\ loc' = [loc EXCEPT ![1].court = 1]
               /\ Goto(1, "court") /\ UNCHANGED resp
       /\ UNCHANGED <<slots, nextId>>
       /\ LoopIdle

\* for court_id in bulk_request.court_ids: the cursor is set to the daily
\* start; after the last court the day advances.
BulkCourtStep ==
    LET b == req[1].bulk_request
        v == loc[1]
    IN /\ pc[1] = "court"
       /\ IF v.court > Len(b.court_ids)
          THEN /\ loc' = [loc EXCEPT ![1].current_date = @ + 1]
               /\ Goto(1, "day")
          ELSE /\ loc' = [loc EXCEPT ![1].current_time =
                                Combine(v.current_date, b.daily_start_time)]
               /\ Goto(1, "cursor")
       /\ UNCHANGED <<slots, nextId, resp>>
       /\ LoopIdle

\* while current_time < end_time_for_day: one iteration, with its INSERT.
\* An exception (unique violation, OverflowError) ends the request.
BulkCursorStep ==
    LET b == req[1].bulk_request
        v == loc[1]
        end_time_for_day == Combine(v.current_date, b.daily_end_time)
        slot_end == v.current_time + b.slot_duration_minutes
        row == TimeSlot(nextId, b.tournament_id, b.court_ids[v.court],
                        v.current_time, slot_end, TRUE, NULL)
        advanced == slot_end + b.break_duration_minutes
    IN /\ pc[1] = "cursor"
       /\ IF ~(v.current_time < end_time_for_day) \/ slot_end > end_time_for_day
          THEN /\ loc' = [loc EXCEPT ![1].court = @ + 1]
               /\ Goto(1, "court")
               /\ UNCHANGED <<slots, nextId, resp>>
          ELSE IF unique_court_time_slot(slots, row)
          THEN /\ resp' = [resp EXCEPT ![1] = HTTP_500_INTERNAL_SERVER_ERROR]
               /\ Goto(1, "failed")
               /\ UNCHANGED <<slots, nextId, loc>>
          ELSE /\ slots' = slots \cup {row}
               /\ nextId' = nextId + 1
               /\ IF advanced < MinInstant
                  THEN /\ resp' = [resp EXCEPT ![1] = HTTP_500_INTERNAL_SERVER_ERROR]
                       /\ Goto(1, "failed")
                       /\ UNCHANGED loc
                  ELSE /\ loc' = [loc EXCEPT ![1].current_time = advanced]
                       /\ UNCHANGED <<pc, resp>>
       /\ LoopIdle

NextLoop ==
    \/ BulkDayStep
    \/ BulkCourtStep
    \/ BulkCursorStep

\* A request that can take a step takes it.
SpecLoop == InitLoop /\ [][NextLoop]_vars /\ WF_vars(NextLoop)

\* -------------------------------------------------- the next available slot
\* Mutant: a search that admits a slot starting at after_time.
get_next_available_slot_inclusive(store, tournament_id, court_id, after_time) ==
    LET found == {s \in store :
                     /\ s.tournament_id = tournament_id
                     /\ s.is_available
                     /\ Truthy(court_id) => s.court_id = court_id
                     /\ after_time # None => s.start_time >= after_time[1]}
    IN {s \in found : \A o \in found : s.start_time <= o.start_time}

\* get_next_available_slot: the rows that ORDER BY start_time LIMIT 1 can
\* return (one of the earliest rows that pass the filters; none: None).
\* after_time is a datetime or None; a datetime is never falsy.
get_next_available_slot(store, tournament_id, court_id, after_time) ==
    LET found == {s \in store :
                     /\ s.tournament_id = tournament_id
                     /\ s.is_available
                     /\ Truthy(court_id) => s.court_id = court_id
                     /\ after_time # None => s.start_time > after_time[1]}
    IN {s \in found : \A o \in found : s.start_time <= o.start_time}

\* GET /tournaments/{tournament_id}/time-slots/next-available
get_next_available_time_slot(tournament_id, court_id, after_time) ==
    LET rows == get_next_available_slot(slots, tournament_id, court_id, after_time)
    IN /\ \E next_slot \in IF rows = {} THEN {None}
                                        ELSE {Some(s) : s \in rows} :
              last' = [op |-> "next", id |-> NULL,
                       status |-> IF next_slot = None THEN HTTP_404_NOT_FOUND
                                                      ELSE HTTP_200_OK,
                       tournament_id |-> tournament_id, court_id |-> court_id,
                       after_time |-> after_time, next_slot |-> next_slot]
       /\ UNCHANGED <<slots, nextId>>
       /\ ProcsIdle

\* The stores the search runs on: up to two slots of any tournament and
\* court over a proper interval, available or not, that the unique
\* constraint admits.
NextStores ==
    LET rows(id) == {TimeSlot(id, t, b.court_id, b.start_time, b.end_time, av, NULL) :
                        t \in Tournaments, b \in ConcBodies, av \in BOOLEAN}
    IN {{}} \cup {{r1} : r1 \in rows(1)}
            \cup {st \in {{r1, r2} : r1 \in rows(1), r2 \in rows(2)} :
                     \A row \in st : ~unique_court_time_slot(st, row)}

InitNext ==
    /\ slots \in NextStores
    /\ nextId = Cardinality(slots) + 1
    /\ last = NoRequest
    /\ pc = [p \in Procs |-> "idle"]
    /\ req = [p \in Procs |-> NoRequest]
    /\ loc = [p \in Procs |-> {}]
    /\ resp = [p \in Procs |-> NULL]
    /\ NoReferees

\* One search, with or without a court and an instant.
SearchNext ==
    /\ last = NoRequest
    /\ \E t \in Tournaments, c \in Courts \cup {NULL},
          a \in {None} \cup {Some(x) : x \in Times} :
           get_next_available_time_slot(t, c, a)

NextSearch == SearchNext

SpecNext == InitNext /\ [][NextSearch]_vars

\* ------------------------------------------------ assign, then release
\* One slot, as create-slot stored it: available and without a match.  Its
\* record is kept in req[1] for comparison.
InitRound ==
    /\ slots \in {{create_time_slot(1, t, b)} :
                       t \in Tournaments, b \in ConcBodies}
    /\ nextId = Cardinality(slots) + 1
    /\ last = NoRequest
    /\ pc = [p \in Procs |-> "idle"]
    /\ req = [p \in Procs |->
                 IF p = 1 THEN [op |-> "round", id |-> 1,
                                slot |-> CHOOSE s \in slots : s.id = 1]
                          ELSE NoRequest]
    /\ loc = [p \in Procs |-> {}]
    /\ resp = [p \in Procs |-> NULL]
    /\ NoReferees

NextRound ==
    \/ AssignMatch
    \/ ReleaseSlot

SpecRound == InitRound /\ [][NextRound]_vars

\* ------------------------------------------- requests that end in an error
\* The single-record requests of both routers, on unit slots of the first
\* court and on the first referee and match, with the inputs that make each
\* of them fail.
RefusedUpdateDicts ==
    AssignUpdateDicts \cup {[start_time |-> 0, end_time |-> 1]}

RefusedUpdate ==
    \E id \in SlotIds, u \in RefusedUpdateDicts : update_time_slot_info(id, u)
RefusedAssignReferee ==
    \E role \in {"main", "umpire"} : assign_referee(1, 1, role)
RefusedDeclare ==
    add_referee_availability(1, 1, [available_from |-> 0,
                                    available_to |-> MaxTick])
RefusedDeleteReferee == delete_referee_by_id(1)

NextRefused ==
    \/ CreateUnitSlot
    \/ RefusedUpdate
    \/ DeleteSlot
    \/ AssignMatch
    \/ ReleaseSlot
    \/ RefusedAssignReferee
    \/ RefusedDeclare
    \/ RefusedDeleteReferee

SpecRefused == InitStaffed /\ [][NextRefused]_vars

\* ------------------------------------------------- the schedule optimizer
\* Mutant: an optimizer that reports a finished run with a suggestion.
optimize_schedule_done(tournament_id, optimization_type) ==
    [tournament_id |-> tournament_id,
     optimization_type |-> optimization_type,
     status |-> "completed",
     suggestions |-> <<1>>]

\* optimize_schedule: the placeholder dictionary.
optimize_schedule(tournament_id, optimization_type) ==
    [tournament_id |-> tournament_id,
     optimization_type |-> optimization_type,
     status |-> "pending_implementation",
     suggestions |-> <<>>]

\* POST /tournaments/{tournament_id}/optimize-schedule
optimize_tournament_schedule(tournament_id, optimization_request) ==
    /\ last' = [op |-> "optimize", id |-> tournament_id, status |-> HTTP_200_OK,
                result |-> optimize_schedule(tournament_id,
                                             optimization_request.optimize_for)]
    /\ UNCHANGED <<slots, nextId>>
    /\ ProcsIdle

\* Bodies of optimize requests: optimize_for is any string.
OptimizationRequests ==
    {[optimize_for |-> o] :
        o \in {"minimal_conflicts", "referee_availability", "court_usage",
               "shortest_day"}}

\* The tables when the request arrives: up to one slot, the referees, and
\* possibly an availability record and an assignment.
InitOptimize ==
    /\ slots \in ConcStores
    /\ nextId = Cardinality(slots) + 1
    /\ last = NoRequest
    /\ pc = [p \in Procs |-> "idle"]
    /\ req = [p \in Procs |-> NoRequest]
    /\ loc = [p \in Procs |-> {}]
    /\ resp = [p \in Procs |-> NULL]
    /\ referees = {Referee(r, TRUE) : r \in RefereeIds}
    /\ nextRefereeId = MaxReferee + 1
    /\ referees_x_tournaments \in
           {{}, {RefereeAvailability(1, 1, 0, MaxTick)}}
    /\ referees_x_matches \in {{}, {RefereeAssignment(1, 1, "main")}}
    /\ matches = {Match(m, 0, 1, 0) : m \in Matches}

Optimize ==
    \E t \in Tournaments, b \in OptimizationRequests :
        optimize_tournament_schedule(t, b)

NextOptimize == Optimize

SpecOptimize == InitOptimize /\ [][NextOptimize]_vars

\* ================================================================ claims
\* The slot with identity id in a store (when there is one).
SlotOf(store, id) == CHOOSE s \in store : s.id = id
Persisted(store, id) == \E s \in store : s.id = id

\* C1: when two assign requests on the same persisted slot, available and
\* without a match when they arrive, have both finished, exactly one of them
\* succeeded and the other was refused with HTTP 400.
C1_AssignRaceExclusive ==
    \A p \in Procs, q \in Procs :
        ( /\ p # q
          /\ pc[p] = "done" /\ pc[q] = "done"
          /\ req[p].op = "assign" /\ req[q].op = "assign"
          /\ req[p].id = req[q].id
          /\ Persisted(slots, req[p].id) )
        => {resp[p], resp[q]} = {HTTP_200_OK, HTTP_400_BAD_REQUEST}

\* C2: no two persisted slots on the same court have overlapping half-open
\* intervals [start, end).
C2_NoOverlapOnCourt ==
    \A s1 \in slots, s2 \in slots :
        (s1.id # s2.id /\ s1.court_id = s2.court_id)
        => ~(s1.start_time < s2.end_time /\ s2.start_time < s1.end_time)

\* C3: of two concurrent create-slot requests for the same tournament and
\* court with overlapping intervals, at most one persists its slot.
C3_CreateRaceBackstop ==
    \A p \in Procs, q \in Procs :
        ( /\ p # q
          /\ pc[p] = "done" /\ pc[q] = "done"
          /\ req[p].op = "create" /\ req[q].op = "create"
          /\ req[p].tournament_id = req[q].tournament_id
          /\ req[p].slot.court_id = req[q].slot.court_id
          /\ req[p].slot.start_time < req[q].slot.end_time
          /\ req[q].slot.start_time < req[p].slot.end_time )
        => ~(resp[p] = HTTP_200_OK /\ resp[q] = HTTP_200_OK)

\* What C4 says of one assign request on the slot id with the match m.
AssignPost(id, m) ==
    Persisted(slots, id) =>
        LET s == SlotOf(slots, id) IN
        IF ~s.is_available \/ s.match_id # NULL
        THEN /\ last' = [op |-> "assign", id |-> id, status |-> HTTP_400_BAD_REQUEST]
             /\ slots' = slots
        ELSE /\ last' = [op |-> "assign", id |-> id, status |-> HTTP_200_OK]
             /\ slots' = (slots \ {s})
                    \cup {[s EXCEPT !.match_id = m, !.is_available = FALSE]}

\* C4: assignMatchToSlot on a slot that is unavailable or already holds a
\* match fails with HTTP 400 and leaves the store unchanged; on a slot that is
\* available and holds no match it succeeds, sets match_id to the given match
\* and is_available to false, and changes no other field and no other slot.
C4_AssignContract ==
    [][\A id \in SlotIds, m \in Matches :
          assign_match_to_time_slot(id, m) => AssignPost(id, m)]_vars

\* C4 witness: an assign request was refused on a slot that holds a match,
\* next to another persisted slot.
C4_Witness ==
    /\ last.op = "assign" /\ last.status = HTTP_400_BAD_REQUEST
    /\ Persisted(slots, last.id)
    /\ SlotOf(slots, last.id).match_id # NULL
    /\ Cardinality(slots) = 2

\* C5 as stated: every persisted slot has is_available = (match_id is null).
C5_AvailableIffNoMatch ==
    \A s \in slots : s.is_available = (s.match_id = NULL)

\* C5 as amended: assign and release write is_available and match_id together
\* (after a successful assign or release the slot has is_available =
\* (match_id is null)); every request other than assign, release and
\* update-slot leaves both columns of every slot that stays persisted as they
\* were; and every new slot is persisted without a match.
C5_AssignReleaseWriteBoth ==
    [][ /\ (last'.op \in {"assign", "release"} /\ last'.status = HTTP_200_OK)
            => /\ Persisted(slots', last'.id)
               /\ LET s == SlotOf(slots', last'.id) IN
                  s.is_available = (s.match_id = NULL)
        /\ last'.op \notin {"assign", "release", "update"}
            => \A s \in slots, n \in slots' :
                  s.id = n.id => /\ n.is_available = s.is_available
                                 /\ n.match_id = s.match_id
        /\ \A n \in slots' : ~Persisted(slots, n.id) => n.match_id = NULL
      ]_vars

\* C5 witness: a release has succeeded and its slot is available again, next
\* to a slot that is blocked: not available, and without a match.
C5_Witness ==
    /\ last.op = "release" /\ last.status = HTTP_200_OK
    /\ Persisted(slots, last.id)
    /\ SlotOf(slots, last.id).is_available
    /\ \E s \in slots : ~s.is_available /\ s.match_id = NULL

\* What C6 says of one release request on the slot id.
ReleasePost(id) ==
    Persisted(slots, id) =>
        LET s == SlotOf(slots, id) IN
        IF s.match_id = NULL
        THEN /\ last' = [op |-> "release", id |-> id, status |-> HTTP_400_BAD_REQUEST]
             /\ slots' = slots
        ELSE /\ last' = [op |-> "release", id |-> id, status |-> HTTP_200_OK]
             /\ slots' = (slots \ {s})
                    \cup {[s EXCEPT !.match_id = NULL, !.is_available = TRUE]}

\* C6: releaseSlot on a slot that holds no match fails with HTTP 400 and
\* leaves the store unchanged; on a slot that holds a match it succeeds, sets
\* match_id to null and is_available to true, and changes no other field and
\* no other slot.
C6_ReleaseContract ==
    [][\A id \in SlotIds : release_time_slot(id) => ReleasePost(id)]_vars

\* C6 witness: a release succeeded on a slot, next to another slot that still
\* holds its match.
C6_Witness ==
    /\ last.op = "release" /\ last.status = HTTP_200_OK
    /\ Persisted(slots, last.id)
    /\ SlotOf(slots, last.id).match_id = NULL
    /\ \E s \in slots : s.id # last.id /\ s.match_id # NULL

\* What C7 says of one delete request on the slot id.
DeletePost(id) ==
    /\ (Persisted(slots, id) /\ SlotOf(slots, id).match_id # NULL)
        => /\ last' = [op |-> "delete", id |-> id, status |-> HTTP_400_BAD_REQUEST]
           /\ slots' = slots
    /\ last = [op |-> "release", id |-> id, status |-> HTTP_200_OK]
        => /\ last' = [op |-> "delete", id |-> id, status |-> HTTP_200_OK]
           /\ ~Persisted(slots', id)
           /\ slots' = slots \ {SlotOf(slots, id)}

\* C7: deleteSlot on a slot that holds a match fails with HTTP 400 and the
\* store is unchanged; deleteSlot right after a successful releaseSlot of the
\* same slot succeeds and removes that slot and nothing else.
C7_DeleteContract ==
    [][\A id \in SlotIds : delete_time_slot_by_id(id) => DeletePost(id)]_vars

\* C7 witness: a delete was refused on a slot that holds a match, and the
\* slot is still persisted next to another slot.
C7_Witness ==
    /\ last.op = "delete" /\ last.status = HTTP_400_BAD_REQUEST
    /\ Persisted(slots, last.id)
    /\ SlotOf(slots, last.id).match_id # NULL
    /\ Cardinality(slots) = 2

\* C8: no step removes a slot whose match_id is non-null at that moment.
C8_DeleteOnlyUnassigned ==
    [][\A s \in slots : ~Persisted(slots', s.id) => s.match_id = NULL]_vars

\* C9: the conflict query returns exactly the persisted slots of the given
\* tournament and court with s.start < end and start < s.end, minus the
\* excluded slot; never a slot that only touches the proposal at an endpoint,
\* nor a slot of another court or tournament.
C9_ConflictsExact ==
    last.op = "check" =>
        LET overlapping ==
                {s \in slots : /\ s.tournament_id = last.tournament_id
                               /\ s.court_id = last.court_id
                               /\ s.start_time < last.end_time
                               /\ last.start_time < s.end_time}
            excluded == {s \in slots : last.id # NULL /\ s.id = last.id}
        IN /\ last.conflicts = overlapping \ excluded
           /\ \A s \in last.conflicts :
                 /\ s.end_time # last.start_time
                 /\ s.start_time # last.end_time
                 /\ s.court_id = last.court_id
                 /\ s.tournament_id = last.tournament_id

\* C9 witness: a query returned one slot and left out a slot of the same
\* tournament and court that ends where the proposal starts.
C9_Witness ==
    /\ last.op = "check"
    /\ Cardinality(last.conflicts) = 1
    /\ \E s \in slots \ last.conflicts :
          /\ s.tournament_id = last.tournament_id
          /\ s.court_id = last.court_id
          /\ s.end_time = last.start_time

\* What C10 says of one create-slot request.
CreatePost(t, b) ==
    LET conflicts == check_slot_conflicts(slots, t, b.court_id, b.start_time,
                                          b.end_time, NULL)
    IN IF conflicts = {}
       THEN /\ last'.status = HTTP_200_OK
            /\ slots' = slots \cup {create_time_slot(last'.id, t, b)}
            /\ ~Persisted(slots, last'.id)
       ELSE /\ last'.status = HTTP_409_CONFLICT
            /\ slots' = slots

\* C10: a create-slot request persists its slot if and only if the conflict
\* query for its tournament, court and bounds returns nothing; otherwise it
\* fails with HTTP 409 and the store is unchanged.
C10_CreateIffNoConflict ==
    [][\A t \in Tournaments, b \in Bodies :
          create_new_time_slot(t, b) => CreatePost(t, b)]_vars

\* The bounds an update-slot request with the dictionary u asks for on the
\* slot s: a bound not supplied keeps its current value.
NewStart(s, u) == IF "start_time" \in DOMAIN u THEN u.start_time ELSE s.start_time
NewEnd(s, u) == IF "end_time" \in DOMAIN u THEN u.end_time ELSE s.end_time

\* The other slots of the tournament and court of s that overlap the bounds
\* the dictionary u asks for.
OthersOverlapping(s, u) ==
    {o \in slots : /\ o.id # s.id
                   /\ o.tournament_id = s.tournament_id
                   /\ o.court_id = s.court_id
                   /\ o.start_time < NewEnd(s, u)
                   /\ NewStart(s, u) < o.end_time}

\* What C11 says of one update-slot request that supplies a bound.
UpdatePost(id, u) ==
    Persisted(slots, id) =>
        LET s == SlotOf(slots, id) IN
        /\ OthersOverlapping(s, u) # {}
            => /\ last' = [op |-> "update", id |-> id, status |-> HTTP_409_CONFLICT]
               /\ slots' = slots
        /\ OthersOverlapping(s, u) = {} => last'.status # HTTP_409_CONFLICT
        /\ ( /\ u = [start_time |-> s.start_time, end_time |-> s.end_time]
             /\ OthersOverlapping(s, u) = {} )
            => /\ last' = [op |-> "update", id |-> id, status |-> HTTP_200_OK]
               /\ slots' = slots

\* C11: an update-slot request that supplies start_time and/or end_time is
\* checked with the new bounds (a bound not supplied keeps its value) against
\* every other slot of the slot's tournament and court: if one overlaps, the
\* request fails with 409 and the store is unchanged; the slot itself is never
\* a conflict, so re-submitting its current bounds succeeds.
C11_UpdateRechecked ==
    [][\A id \in SlotIds, u \in BoundDicts :
          update_time_slot_info(id, u) => UpdatePost(id, u)]_vars

\* C11 witness: an update of bounds was refused on a store of two slots of
\* one tournament and court that do not overlap each other.
C11_Witness ==
    /\ last.op = "update" /\ last.status = HTTP_409_CONFLICT
    /\ \E a \in slots, b \in slots :
          /\ a.id = last.id /\ b.id # a.id
          /\ a.tournament_id = b.tournament_id /\ a.court_id = b.court_id
          /\ ~(a.start_time < b.end_time /\ b.start_time < a.end_time)

\* C12: every persisted slot has end_time > start_time.
C12_EndAfterStart ==
    \A s \in slots : s.end_time > s.start_time

\* The bulk request that was served and, for one of its days, the opening and
\* closing instants of the daily window.
Served == [req[1].bulk_request EXCEPT !.tournament_id = req[1].tournament_id]
DailyOpen(day) == Combine(day, Served.daily_start_time)
DailyClose(day) == Combine(day, Served.daily_end_time)
Step == Served.slot_duration_minutes + Served.break_duration_minutes
CourtsOf(b) == {b.court_ids[i] : i \in 1..Len(b.court_ids)}
IncludedDays ==
    {d \in Served.start_date..Served.end_date : Weekday(d) \notin Served.exclude_days}

\* The intervals C15 expects on one day: [c, c + duration) for
\* c = daily_open + k * (duration + break) while c + duration <= daily_close.
ExpectedGrid(day) ==
    {<<DailyOpen(day) + k * Step,
       DailyOpen(day) + k * Step + Served.slot_duration_minutes>> :
        k \in {j \in 0..TicksPerDay :
                 DailyOpen(day) + j * Step + Served.slot_duration_minutes
                     <= DailyClose(day)}}

\* The intervals of the slots a step has added on one court on one day.
CreatedGrid(court, day) ==
    {<<s.start_time, s.end_time>> :
        s \in {n \in slots' \ slots :
                 /\ n.court_id = court
                 /\ Combine(day, 0) <= n.start_time
                 /\ n.start_time < Combine(day + 1, 0)}}

\* C15: on each non-excluded day and each court, bulk generation emits
\* exactly the slots [c, c + duration), c = daily_open + k * (duration +
\* break), k = 0, 1, 2, ..., while c + duration <= daily_close: every slot has
\* length duration and lies inside the daily window, a trailing slot that
\* would end after daily_close is dropped, and a duration longer than the
\* window gives no slot.
C15_GridPerDayAndCourt ==
    [][(last'.op = "bulk" /\ last'.status = HTTP_200_OK)
        => \A day \in IncludedDays, court \in CourtsOf(Served) :
              /\ CreatedGrid(court, day) = ExpectedGrid(day)
              /\ \A iv \in CreatedGrid(court, day) :
                    /\ iv[2] - iv[1] = Served.slot_duration_minutes
                    /\ DailyOpen(day) <= iv[1] /\ iv[2] <= DailyClose(day)
              /\ Served.slot_duration_minutes > DailyClose(day) - DailyOpen(day)
                    => CreatedGrid(court, day) = {}
      ]_vars

\* C15 witness: a grid of one slot per day was generated although the cursor
\* was still inside the window after it: the trailing slot was dropped.
C15_Witness ==
    /\ last.op = "bulk" /\ last.status = HTTP_200_OK
    /\ last.created_count = 1
    /\ Served.daily_start_time + Step < Served.daily_end_time
    /\ Served.daily_start_time + Step + Served.slot_duration_minutes
          > Served.daily_end_time

\* The number of slots that fit in one day: none when the duration exceeds
\* the window, else one and one more for every whole step that still fits.
SlotsPerDay(day) ==
    IF Served.slot_duration_minutes > DailyClose(day) - DailyOpen(day)
    THEN 0
    ELSE ((DailyClose(day) - DailyOpen(day) - Served.slot_duration_minutes)
             \div Step) + 1

\* C16: on a store where no insert fails, bulk generation for N distinct
\* courts over the days start_date .. end_date creates exactly N * D * k
\* slots, D the number of those days whose weekday is not excluded and k the
\* number of slots that fit in one day, and created_count equals the number
\* of slots added to the store.
C16_GridCount ==
    [][(last'.op = "bulk" /\ last'.status = HTTP_200_OK)
        => /\ Cardinality(slots' \ slots)
                = Len(Served.court_ids) * Cardinality(IncludedDays) * SlotsPerDay(0)
           /\ last'.created_count = Cardinality(slots' \ slots)
           /\ slots \subseteq slots'
      ]_vars

\* C16 witness: two courts, two days and two slots a day: eight slots.
C16_Witness ==
    /\ last.op = "bulk" /\ last.status = HTTP_200_OK
    /\ Len(Served.court_ids) = 2
    /\ Cardinality(IncludedDays) = 2
    /\ SlotsPerDay(0) = 2
    /\ last.created_count = 8

\* The intervals of the slots a step has added on one court.
CreatedOnCourt(court) ==
    {<<n.start_time, n.end_time>> : n \in {x \in slots' \ slots : x.court_id = court}}

\* C17: every slot created by bulk generation is available, holds no match
\* and belongs to the tournament of the request, and the intervals generated
\* are the same for every court of the request.
C17_GridReplicated ==
    [][last'.op = "bulk"
        => /\ \A n \in slots' \ slots :
                 /\ n.is_available
                 /\ n.match_id = NULL
                 /\ n.tournament_id = req[1].tournament_id
           /\ last'.status = HTTP_200_OK
                 => \A c1 \in CourtsOf(Served), c2 \in CourtsOf(Served) :
                       CreatedOnCourt(c1) = CreatedOnCourt(c2)
      ]_vars

\* C17 witness: slots were generated on two courts for a request whose body
\* names another tournament than its path.
C17_Witness ==
    /\ last.op = "bulk" /\ last.status = HTTP_200_OK
    /\ Len(Served.court_ids) = 2
    /\ last.created_count >= 4
    /\ req[1].bulk_request.tournament_id # req[1].tournament_id
    /\ \A s \in slots : s.tournament_id = req[1].tournament_id

\* The rows a bulk request sets out to insert.
ServedDrafts ==
    LET drafts == BulkDrafts(Served, Served.start_date)
    IN {drafts[i] : i \in 1..Len(drafts)}

\* C18: when an insert of a bulk generation fails, the remaining slots of the
\* batch are still inserted (every generated slot the unique constraint
\* admits is persisted), and the count reported equals the number of inserts
\* that succeeded.
C18_BulkBestEffort ==
    [][last'.op = "bulk"
        => /\ \A d \in ServedDrafts :
                 (~\E s \in slots : /\ s.court_id = d.court_id
                                     /\ s.start_time = d.start_time
                                     /\ s.end_time = d.end_time)
                 => \E n \in slots' : /\ n.court_id = d.court_id
                                       /\ n.start_time = d.start_time
                                       /\ n.end_time = d.end_time
           /\ last'.created_count = Cardinality(slots' \ slots)
      ]_vars

\* The availability records of a referee for the tournament of the last
\* query.
RecordsOf(r) ==
    {x \in referees_x_tournaments :
        x.referee_id = r.id /\ x.tournament_id = last.tournament_id}

\* The declared window of the record covers the range of the last query.
Covers(x) ==
    x.available_from <= last.start_time /\ last.end_time <= x.available_to

\* C13: availableReferees returns a referee only if the referee is active and
\* has an availability record for that tournament with available_from <=
\* start and end <= available_to; a referee whose window only partially
\* overlaps the range, who is inactive, or whose only record is for another
\* tournament is never returned.
C13_AvailableOnlyIfCovered ==
    last.op = "available" =>
        /\ last.referees \subseteq referees
        /\ \A r \in last.referees :
              r.active /\ \E x \in RecordsOf(r) : Covers(x)
        /\ \A r \in referees :
              ( \/ ~r.active
                \/ RecordsOf(r) = {}
                \/ \A x \in RecordsOf(r) : ~Covers(x) )
              => r \notin last.referees

\* C13 witness: one referee is returned and another, active and with a
\* window for the same tournament that overlaps the range without covering
\* it, is not.
C13_Witness ==
    /\ last.op = "available"
    /\ Cardinality(last.referees) = 1
    /\ \E r \in referees \ last.referees :
          /\ r.active
          /\ \E x \in RecordsOf(r) :
                /\ ~Covers(x)
                /\ x.available_from < last.end_time
                /\ last.start_time < x.available_to

\* The referee passes the availability-window filter of the last query.
PassesWindow(r) == r.active /\ \E x \in RecordsOf(r) : Covers(x)

\* The matches the referee is assigned to, in any role.
MatchesOf(r) ==
    {m \in matches : \E a \in referees_x_matches :
                        a.referee_id = r.id /\ a.match_id = m.id}

\* C14: a referee who passes the availability-window filter is returned if
\* and only if none of the matches they are assigned to has m.start < end and
\* m.start + m.duration + m.margin > start; a range that starts exactly at
\* m.start + m.duration + m.margin, or ends exactly at m.start, does not
\* exclude the referee.
C14_AvailableIffNoBusyMatch ==
    last.op = "available" =>
        \A r \in referees :
            PassesWindow(r) =>
                /\ r \in last.referees
                    <=> ~\E m \in MatchesOf(r) :
                           /\ m.start_time < last.end_time
                           /\ m.start_time + m.duration_minutes + m.margin_minutes
                                 > last.start_time
                /\ (\A m \in MatchesOf(r) :
                       \/ m.start_time + m.duration_minutes + m.margin_minutes
                             = last.start_time
                       \/ m.start_time = last.end_time)
                    => r \in last.referees

\* C14 witness: a referee is returned for a range that starts exactly where
\* the margin of their match ends.
C14_Witness ==
    /\ last.op = "available"
    /\ \E r \in last.referees : \E m \in MatchesOf(r) :
          /\ m.margin_minutes > 0
          /\ m.start_time + m.duration_minutes + m.margin_minutes = last.start_time

\* What C19 says of one assignRefereeToMatch request for an existing referee
\* and a role of the enumeration.
AssignRefereePost(m, r, role) ==
    get_referee_by_id(r) # {} =>
        IF RefereeAssignment(r, m, role) \in referees_x_matches
        THEN /\ last' = [op |-> "assign_referee", id |-> r, status |-> HTTP_409_CONFLICT]
             /\ referees_x_matches' = referees_x_matches
        ELSE /\ last' = [op |-> "assign_referee", id |-> r, status |-> HTTP_200_OK]
             /\ referees_x_matches' =
                    referees_x_matches \cup {RefereeAssignment(r, m, role)}

\* C19: there is at most one assignment record per (referee, match, role):
\* assignRefereeToMatch with a triple that exists fails with Conflict (409)
\* and leaves the records unchanged, and with a role the referee does not yet
\* hold on the match it succeeds and adds one record.
C19_OneRecordPerTriple ==
    [][\A m \in Matches, r \in RefereeIds,
          role \in {"main", "assistant", "line_judge", "video_referee"} :
          assign_referee(m, r, role) => AssignRefereePost(m, r, role)]_vars

\* The fixed enumeration of roles.
RoleEnumeration == {"main", "assistant", "line_judge", "video_referee"}

\* What C20 says of one assignRefereeToMatch request.
AssignRefereeChecked(m, r, role) ==
    /\ get_referee_by_id(r) = {}
        => /\ last' = [op |-> "assign_referee", id |-> r, status |-> HTTP_404_NOT_FOUND]
           /\ referees_x_matches' = referees_x_matches
    /\ (get_referee_by_id(r) # {} /\ role \notin RoleEnumeration)
        => /\ last' = [op |-> "assign_referee", id |-> r, status |-> HTTP_400_BAD_REQUEST]
           /\ referees_x_matches' = referees_x_matches

\* C20: assignRefereeToMatch fails with 404 when the referee does not exist
\* and with 400 when the role is outside the enumeration, and inserts nothing
\* in both cases; every assignment record that is added has a role of the
\* enumeration and the identity of a referee that existed at that moment.
C20_AssignRefereeValidated ==
    [][ /\ \A m \in Matches, r \in RefereeIds, role \in Roles :
              assign_referee(m, r, role) => AssignRefereeChecked(m, r, role)
        /\ \A a \in referees_x_matches' \ referees_x_matches :
              /\ a.role \in RoleEnumeration
              /\ \E ref \in referees : ref.id = a.referee_id
        /\ \A a \in referees_x_matches' :
              /\ a.role \in RoleEnumeration
              /\ \E ref \in referees' : ref.id = a.referee_id
      ]_vars

\* C20 witness: a request with a role outside the enumeration was refused
\* for a referee who exists and already holds a role on a match.
C20_Witness ==
    /\ last.op = "assign_referee" /\ last.status = HTTP_400_BAD_REQUEST
    /\ get_referee_by_id(last.id) # {}
    /\ \E a \in referees_x_matches : a.referee_id = last.id

\* What C21 says of one declare-availability request.
DeclarePost(t, r) ==
    /\ get_referee_by_id(r) = {}
        => /\ last' = [op |-> "declare", id |-> r, status |-> HTTP_404_NOT_FOUND]
           /\ referees_x_tournaments' = referees_x_tournaments
    /\ (\E x \in referees_x_tournaments : x.referee_id = r /\ x.tournament_id = t)
        => referees_x_tournaments' = referees_x_tournaments

\* C21: there is at most one availability record per (referee, tournament):
\* declaring availability again for a pair adds no record and leaves the
\* existing one unchanged, and declaring it for a referee that does not exist
\* fails with 404 and inserts nothing.
C21_OneAvailabilityPerPair ==
    [][ /\ \A t \in Tournaments, r \in RefereeIds, b \in AvailabilityBodies :
              add_referee_availability(t, r, b) => DeclarePost(t, r)
        /\ \A x \in referees_x_tournaments', y \in referees_x_tournaments' :
              (x.referee_id = y.referee_id /\ x.tournament_id = y.tournament_id)
              => x = y
      ]_vars

\* C21 witness: a second declaration for a pair was rejected and the record
\* of the pair is there, next to the record of another pair.
C21_Witness ==
    /\ last.op = "declare" /\ last.status = HTTP_500_INTERNAL_SERVER_ERROR
    /\ \E x \in referees_x_tournaments : x.referee_id = last.id
    /\ Cardinality(referees_x_tournaments) >= 2

\* C22: every persisted availability record has available_from <
\* available_to.
C22_WindowProper ==
    \A x \in referees_x_tournaments : x.available_from < x.available_to

\* The assignment records of a (referee, match) pair.
PairRows(table, r, m) ==
    {a \in table : a.referee_id = r /\ a.match_id = m}

\* What C23 says of one assignment update.
UpdateAssignmentPost(m, r, confirmed, notes) ==
    /\ referees_x_matches' \ PairRows(referees_x_matches', r, m)
           = referees_x_matches \ PairRows(referees_x_matches, r, m)
    /\ {<<a.referee_id, a.match_id, a.role>> : a \in referees_x_matches'}
           = {<<a.referee_id, a.match_id, a.role>> : a \in referees_x_matches}
    /\ \A a \in PairRows(referees_x_matches, r, m),
          b \in PairRows(referees_x_matches', r, m) :
           a.role = b.role
           => /\ b.confirmed = IF confirmed = None THEN a.confirmed
                                                  ELSE confirmed[1]
              /\ b.notes = IF notes = None THEN a.notes ELSE notes
    /\ PairRows(referees_x_matches, r, m) = {}
           => /\ last'.status = HTTP_404_NOT_FOUND
              /\ referees_x_matches' = referees_x_matches

\* C23: an assignment update changes, of confirmed and notes, only the
\* fields supplied; the field not supplied keeps its value; referee, match
\* and role never change; no record of another (referee, match) pair changes;
\* with no record for the pair it fails with 404 and changes nothing.
C23_UpdateAssignmentPartial ==
    [][\A r \in RefereeIds, m \in Matches,
          confirmed \in ConfirmedParams, notes \in NotesParams :
           update_referee_match_assignment(m, r, confirmed, notes)
           => UpdateAssignmentPost(m, r, confirmed, notes)]_vars

\* C23 witness: an update that supplied confirmed alone succeeded (the notes
\* of the record are still absent) while another pair has a record with notes.
C23_Witness ==
    /\ last.op = "update_assignment" /\ last.status = HTTP_200_OK
    /\ \E a \in referees_x_matches :
           a.referee_id = last.id /\ a.confirmed /\ a.notes = None
    /\ \E b \in referees_x_matches :
           b.referee_id # last.id /\ b.notes # None

\* What C24 says of one removal.
RemovePost(m, r) ==
    /\ last'.status = IF PairRows(referees_x_matches, r, m) # {}
                      THEN HTTP_200_OK ELSE HTTP_404_NOT_FOUND
    /\ PairRows(referees_x_matches', r, m) = {}
    /\ referees_x_matches' \ PairRows(referees_x_matches', r, m)
           = referees_x_matches \ PairRows(referees_x_matches, r, m)
    /\ (last.op = "remove_referee" /\ last.id = r /\ m = 1)
           => /\ last'.status = HTTP_404_NOT_FOUND
              /\ referees_x_matches' = referees_x_matches

\* C24: a removal reports a removed row exactly when the (referee, match)
\* pair had a record; afterwards the pair has none and the records of other
\* pairs are unchanged; the same removal repeated at once answers 404 and
\* changes nothing.
C24_RemoveAssignment ==
    [][\A r \in RefereeIds, m \in Matches :
           remove_referee_from_match_endpoint(m, r) => RemovePost(m, r)]_vars

\* C24 witness: a removal succeeded for a referee, whose pair has no record
\* left, and the record of another pair, updated before, is still there.
C24_Witness ==
    /\ last.op = "remove_referee" /\ last.status = HTTP_200_OK
    /\ PairRows(referees_x_matches, last.id, 1) = {}
    /\ \E b \in referees_x_matches : b.confirmed /\ b.notes # None

\* C25: deleting a referee removes every availability record and every
\* assignment record of that referee, and in every state reached, also by a
\* deletion between the statements of an assignment or of a declaration for
\* the same referee, every record of the two tables names a referee that
\* exists.
C25_RecordsNameReferees ==
    [][ /\ \A p \in Procs, r \in RefereeIds :
              StaffDelete(p, r)
              => /\ get_referee_by_id(r) # {} => resp'[p] = HTTP_200_OK
                 /\ \A x \in referees_x_tournaments' : x.referee_id # r
                 /\ \A a \in referees_x_matches' : a.referee_id # r
        /\ \A x \in referees_x_tournaments' :
              \E r \in referees' : r.id = x.referee_id
        /\ \A a \in referees_x_matches' :
              \E r \in referees' : r.id = a.referee_id
      ]_vars

\* C25 witness: a request read its referee, the referee was deleted by the
\* other request, and the insert that followed was rejected.
C25_Witness ==
    \E p \in Procs, q \in Procs :
        /\ pc[p] = "done" /\ req[p].op \in {"assign_referee", "declare"}
        /\ resp[p] = HTTP_500_INTERNAL_SERVER_ERROR
        /\ pc[q] = "done" /\ req[q].op = "delete_referee"
        /\ resp[q] = HTTP_200_OK
        /\ req[q].id = req[p].id
        /\ loc[p] # {}

\* The query of the last call with the roles exchanged: the proposal is the
\* stored slot, and the interval of the stored slot s is the proposal.
SwappedConflicts(s) ==
    check_slot_conflicts(
        {TimeSlot(s.id, last.tournament_id, last.court_id,
                  last.start_time, last.end_time, TRUE, NULL)},
        s.tournament_id, s.court_id, s.start_time, s.end_time, NULL)

\* C26: the overlap test of the conflict query is symmetric and false at
\* touching boundaries: a stored slot of the court is reported for a proposal
\* exactly when a slot stored with the proposal's interval is reported for
\* the stored slot's interval, and a slot that shares only an endpoint with
\* the proposal is never reported.
C26_OverlapSymmetric ==
    last.op = "check" =>
        \A s \in slots :
            (/\ s.tournament_id = last.tournament_id
             /\ s.court_id = last.court_id
             /\ s.id # last.id)
            => /\ s \in last.conflicts <=> SwappedConflicts(s) # {}
               /\ (s.end_time = last.start_time \/ last.end_time = s.start_time)
                      => s \notin last.conflicts

\* C26 witness: a query reported one slot of the court and not the slot of
\* the court that starts where the proposal ends.
C26_Witness ==
    /\ last.op = "check"
    /\ last.start_time < last.end_time
    /\ last.conflicts # {}
    /\ \E s \in slots \ last.conflicts :
          /\ s.tournament_id = last.tournament_id
          /\ s.court_id = last.court_id
          /\ s.start_time = last.end_time

\* C27: the schedule optimizer is a stub: for every tournament and every
\* objective the result has status pending_implementation and no suggestion,
\* and no slot, referee, availability or assignment record changes.
C27_OptimizerStub ==
    [][\A t \in Tournaments, b \in OptimizationRequests :
           optimize_tournament_schedule(t, b)
           => /\ last'.result.status = "pending_implementation"
              /\ last'.result.suggestions = <<>>
              /\ last'.result.optimization_type = b.optimize_for
              /\ UNCHANGED <<slots, referees, referees_x_tournaments,
                             referees_x_matches>>]_vars

\* C27 witness: the optimizer was asked for court usage on tables that hold
\* a slot, referees, an availability record and an assignment.
C27_Witness ==
    /\ last.op = "optimize"
    /\ last.result.optimization_type = "court_usage"
    /\ slots # {} /\ referees # {}
    /\ referees_x_tournaments # {} /\ referees_x_matches # {}

\* C28: a match is held by at most one slot: assigning a match to a slot
\* never succeeds while another persisted slot holds that match.
C28_MatchInOneSlot ==
    [][\A id \in SlotIds, m \in Matches :
           (/\ assign_match_to_time_slot(id, m)
            /\ \E s \in slots : s.id # id /\ s.match_id = m)
           => last'.status # HTTP_200_OK]_vars

\* C29: in every state reached by create-slot requests that interleave, by
\* bulk generation and by update-slot, no two persisted slots have the same
\* court, start and end, whatever their tournaments.
C29_UniqueCourtInterval ==
    \A s1 \in slots, s2 \in slots :
        (/\ s1.court_id = s2.court_id
         /\ s1.start_time = s2.start_time
         /\ s1.end_time = s2.end_time) => s1 = s2

\* C29 witness: a create-slot request passed its conflict check and was
\* rejected at the insert, its court and interval being held by a slot of
\* another tournament.
C29_Witness ==
    \E p \in Procs :
        /\ pc[p] = "done" /\ req[p].op = "create"
        /\ resp[p] = HTTP_500_INTERNAL_SERVER_ERROR
        /\ \E s \in slots :
              /\ s.tournament_id # req[p].tournament_id
              /\ s.court_id = req[p].slot.court_id
              /\ s.start_time = req[p].slot.start_time
              /\ s.end_time = req[p].slot.end_time

\* C30: bulk_create_time_slots terminates on every request the model
\* accepts, a duration of 0 and a break with duration + break <= 0 included:
\* the day loop and the cursor loop finish and the function returns.
C30_BulkTerminates == <>(pc[1] = "done")

\* C31: an assignment update answers 404 only when the (referee, match) pair
\* has no record: whenever the pair has a record the request succeeds, also
\* when neither confirmed nor notes is supplied.
C31_UpdateNotFoundOnlyIfAbsent ==
    [][\A r \in RefereeIds, m \in Matches,
          confirmed \in ConfirmedParams, notes \in NotesParams :
           update_referee_match_assignment(m, r, confirmed, notes)
           => (last'.status = HTTP_404_NOT_FOUND
                  <=> PairRows(referees_x_matches, r, m) = {})]_vars

\* The roles a referee holds on a match.
RolesOf(table, r, m) == {a.role : a \in PairRows(table, r, m)}

\* C32: when a referee holds several roles on a match, an assignment update
\* writes the supplied values to the record of every role of the pair and a
\* removal deletes the record of every role of the pair; no request addresses
\* one (referee, match, role) record.
C32_AllRolesAtOnce ==
    [][ /\ \A r \in RefereeIds, m \in Matches,
              confirmed \in ConfirmedParams, notes \in NotesParams :
              update_referee_match_assignment(m, r, confirmed, notes)
              => /\ RolesOf(referees_x_matches', r, m)
                        = RolesOf(referees_x_matches, r, m)
                 /\ \A b \in PairRows(referees_x_matches', r, m) :
                        /\ confirmed # None => b.confirmed = confirmed[1]
                        /\ notes # None => b.notes = notes
        /\ \A r \in RefereeIds, m \in Matches :
              remove_referee_from_match_endpoint(m, r)
              => RolesOf(referees_x_matches', r, m) = {}
      ]_vars

\* C32 witness: a referee holds two roles on a match and an update has just
\* confirmed and annotated the records of both.
C32_Witness ==
    /\ last.op = "update_assignment" /\ last.status = HTTP_200_OK
    /\ \E m \in Matches :
          /\ Cardinality(RolesOf(referees_x_matches, last.id, m)) >= 2
          /\ \A b \in PairRows(referees_x_matches, last.id, m) :
                 b.confirmed /\ b.notes # None

\* The statuses of NotFound, Conflict, InvalidArgument and InvalidState.
RefusalStatuses ==
    {HTTP_404_NOT_FOUND, HTTP_409_CONFLICT, HTTP_400_BAD_REQUEST}

\* C33: a single-record request that ends in NotFound, Conflict,
\* InvalidArgument or InvalidState writes nothing: the slots, referees,
\* availability records and assignment records are those of before.
C33_RefusedWritesNothing ==
    [][last'.status \in RefusalStatuses
          => UNCHANGED <<slots, referees, referees_x_tournaments,
                         referees_x_matches>>]_vars

\* C33 witness: a referee assignment was refused for its role while slots,
\* referees, an availability record and an assignment were stored.
C33_Witness ==
    /\ last.op = "assign_referee" /\ last.status = HTTP_400_BAD_REQUEST
    /\ slots # {} /\ referees # {}
    /\ referees_x_tournaments # {} /\ referees_x_matches # {}

\* C34: assign-match followed by release on the same slot is a round trip:
\* from a slot that is available and holds no match, after both succeed the
\* record is the one before the assignment, and the slot can be assigned
\* again.
C34_AssignReleaseRoundTrip ==
    [][ /\ (last'.op = "release" /\ last'.status = HTTP_200_OK)
            => slots' = {req[1].slot}
        /\ \A id \in SlotIds, m \in Matches :
              (/\ last = [op |-> "release", id |-> id, status |-> HTTP_200_OK]
               /\ assign_match_to_time_slot(id, m))
              => /\ last'.status = HTTP_200_OK
                 /\ SlotOf(slots', id).match_id = m
      ]_vars

\* C34 witness: the slot was assigned and released and its record is the one
\* that was stored first.
C34_Witness ==
    /\ last = [op |-> "release", id |-> 1, status |-> HTTP_200_OK]
    /\ SlotOf(slots, 1) = req[1].slot
    /\ req[1].slot.is_available /\ req[1].slot.match_id = NULL

\* The slots a search for (t, c, a) may return: of the tournament, of the
\* court when one is given, available, and starting after a when one is given.
Eligible(t, c, a) ==
    {s \in slots : /\ s.tournament_id = t
                   /\ s.is_available
                   /\ c # NULL => s.court_id = c
                   /\ a # None => s.start_time > a[1]}

\* C35: the next-available search returns an eligible slot with the smallest
\* start_time among the eligible slots, reports 404 exactly when no slot is
\* eligible, and changes no record.
C35_NextAvailable ==
    [][\A t \in Tournaments, c \in Courts \cup {NULL},
          a \in {None} \cup {Some(x) : x \in Times} :
           get_next_available_time_slot(t, c, a)
           => /\ last'.status = HTTP_404_NOT_FOUND <=> Eligible(t, c, a) = {}
              /\ last'.status = HTTP_200_OK <=> Eligible(t, c, a) # {}
              /\ last'.status = HTTP_200_OK
                    => /\ last'.next_slot[1] \in Eligible(t, c, a)
                       /\ \A o \in Eligible(t, c, a) :
                              last'.next_slot[1].start_time <= o.start_time
              /\ UNCHANGED <<slots, referees, referees_x_tournaments,
                             referees_x_matches>>]_vars

\* C35 witness: a search on a court after an instant returned a slot and
\* passed over an available slot of the court that starts at that instant.
C35_Witness ==
    /\ last.op = "next" /\ last.status = HTTP_200_OK
    /\ last.court_id # NULL /\ last.after_time # None
    /\ \E s \in slots :
          /\ s.tournament_id = last.tournament_id
          /\ s.court_id = last.court_id
          /\ s.is_available
          /\ s.start_time = last.after_time[1]
          /\ last.next_slot[1].start_time > s.start_time

====
